---- MODULE Spec2Model ----
(***************************************************************************)
(* ViralReplicator: the analysis service (size branch, resumable upload,   *)
(* readiness polling, analysis request), the Veo generation client with    *)
(* the scene card that drives it, and the client-side merge of the         *)
(* generated clips.                                                        *)
(*                                                                         *)
(* Strings the code builds (error messages, URIs) are sequences of tokens; *)
(* String.includes / startsWith / split are computed on the tokens.        *)
(***************************************************************************)
EXTENDS Integers, Sequences, FiniteSets, TLC

\* ------------------------------------------------------------------ bounds
\* Status polls counted per analysis run; the loop itself has no bound, the
\* counter saturates here.
MaxPolls == 3
\* Largest number of polls after which a remote Veo operation turns done.
MaxFlip == 2
\* Scene ids of a storyboard are 1..NumScenes.
NumScenes == 3
\* Scene cards of the storyboard in the generation runs.
NumCards == 2
\* Invocations of handleGenerateVideo in one session.
MaxCalls == 2
\* Clips the scene cards report to the view in one session.
MaxClips == 3
\* Analyses still pending beside the latest one.
MaxAbandoned == 1
\* Files the uploader reads at a time.
MaxReads == 1
\* Changes typed into the fields of the scene cards in one session.
MaxEdits == 2

\* ------------------------------------------------------- program constants
INLINE_SIZE_LIMIT == 10 * 1024 * 1024
MAX_SIZE_BYTES == 200 * 1024 * 1024

\* ------------------------------------------------------------ token strings
Includes(msg, sub) == \E i \in 1..Len(msg) : msg[i] = sub

StartsWith(s, tok) == Len(s) > 0 /\ s[1] = tok

Min(a, b) == IF a < b THEN a ELSE b

\* A counter of an unbounded loop, saturating at the model's bound.
Count(n, max) == Min(n + 1, max)

\* Thrown values.  A ProgressEvent (FileReader.onerror) has no message.
Err(type, message) == [type |-> type, message |-> message]

MessageOf(e) == IF e.type = "ProgressEvent" THEN <<>> ELSE e.message

NoError == Err("none", <<>>)

\* ------------------------------------------------------------- the inputs
FileSizes ==
  {0, INLINE_SIZE_LIMIT - 1, INLINE_SIZE_LIMIT, INLINE_SIZE_LIMIT + 1, MAX_SIZE_BYTES}

FileTypes == {"", "video/webm"}

Files == [size : FileSizes, type : FileTypes]

NoFile == [size |-> -1, type |-> ""]

\* Server error bodies, as token strings.
ErrBodies == {<<>>, <<"quota exceeded">>, <<"Rpc failed">>, <<"error", "code: 6">>}

\* What a fetch() can come back with: a rejection (no connection), or an HTTP
\* response.  A response that is not ok carries an error body.
FetchRejected == Err("TypeError", <<"Failed to fetch">>)

HttpErrors == [status : {"503"}, statusText : {"", "Service Unavailable"}, text : ErrBodies]

\* The x-goog-upload-url header of the start response: absent, or a URL
\* with or without a query string and with or without the key.
NoUrl == <<>>

UploadUrls ==
  { <<"https://", "upload">>,
    <<"https://", "upload", "?", "upload_id=1">>,
    <<"https://", "upload", "?", "upload_id=1", "&", "key=", "K">> }

\* Responses to the start request (POST, lines 57-67).
StartResponses ==
  [ok : {FALSE}, status : {"503"}, statusText : {"", "Service Unavailable"},
   text : ErrBodies, uploadUrl : {NoUrl}]
    \cup [ok : {TRUE}, status : {"200"}, statusText : {"OK"}, text : {<<>>},
          uploadUrl : UploadUrls \cup {NoUrl}]

NoStartResponse ==
  [ok |-> FALSE, status |-> "none", statusText |-> "", text |-> <<>>, uploadUrl |-> NoUrl]

\* The file URI of the upload result: a full URI, a short name, a raw name.
FileUris ==
  { <<"https://", "host/v1beta", "/files/", "abc">>,
    <<"files/", "abc">>,
    <<"abc">> }

\* Responses to the transfer request (PUT, lines 91-101).  The body of an ok
\* response is not JSON, or JSON without file, or without file.uri, or with it.
UploadResponses ==
  [ok : {FALSE}, status : {"503"}, statusText : {"", "Service Unavailable"},
   text : ErrBodies, json : {"none"}, uri : {<<>>}]
    \cup [ok : {TRUE}, status : {"200"}, statusText : {"OK"}, text : {<<>>},
          json : {"invalid", "nofile", "nouri"}, uri : {<<>>}]
    \cup [ok : {TRUE}, status : {"200"}, statusText : {"OK"}, text : {<<>>},
          json : {"file"}, uri : FileUris]

NoUploadResponse ==
  [ok |-> FALSE, status |-> "none", statusText |-> "", text |-> <<>>, json |-> "none",
   uri |-> <<>>]

\* States the file-status endpoint reports.
FileStates == {"PROCESSING", "ACTIVE", "FAILED", "STATE_UNSPECIFIED"}

\* The response text of the analysis endpoint: absent, empty, not JSON, or
\* a JSON document (with or without its scenes).
ResponseTexts == {"undefined", "", "garbage", "{title,summary,scenes}", "{title,summary}"}

VARIABLES
  \* ---- analyzeVideoScript, one call at a time
  file,             \* the File passed to analyzeVideoScript
  apc,              \* where the call is suspended
  parts,            \* the video part of the request: "none", "inlineData", "fileData"
  startResponse,    \* uploadFileToGemini: the response to the start request
  actualUploadUrl,  \* uploadFileToGemini: the URL the bytes are PUT to
  uploadResponse,   \* uploadFileToGemini: the response to the transfer request
  fileUri,          \* the URI uploadFileToGemini returned
  getUrl,           \* waitForFileActive: the URL polled
  lastState,        \* waitForFileActive: data.state in the current iteration
  thrown,           \* the error caught at the catch of analyzeVideoScript
  rejected,         \* the error analyzeVideoScript rejects with
  result,           \* the value analyzeVideoScript resolves with, in a sequence
  responseText,     \* response.text of the analysis request, "none" before it
  nInitiate,        \* requests issued by the call, by kind
  nTransfer,
  nPoll,
  nAnalyze,
  remoteFile,       \* the remote file's lifecycle state
  failedFrom,       \* history: the transfer phases some call has failed in
  \* ---- AnalysisResultView and its SceneCards
  scenes,           \* localResult.scenes
  generatedVideos,  \* scene id -> object URL of its clip, NoClip when absent
  aistudio,         \* whether window.aistudio exists
  isGenerating,     \* SceneCard state, by scene id
  generatedVideoUrl,
  error,
  calls,            \* the invocations of handleGenerateVideo, in call order
  \* ---- handleMergeVideos
  isMerging,
  mergedVideoUrl,   \* NoMerged, or the object URL of the merged blob
  mergeProgress,
  mpc,              \* where handleMergeVideos is suspended
  videoUrlsToMerge, \* the clips of the running merge
  mi,               \* the loop variable i, counted from 1
  cpc,              \* the video element: "loading", "loaded", "playing"
  played,           \* the clips loaded into the video element, in order
  drawn,            \* the clips whose frames were drawn on the canvas, in order
  canvas,           \* NoClip (default size), or the clip whose size the canvas took
  recorder,         \* MediaRecorder.state
  alerted,          \* whether the last merge raised the alert
  genOrder,         \* history: the scene ids of the onVideoSuccess calls, in order
  finished,         \* history: the clips of the merge whose promise was resolved,
                    \* each with the event that resolved it, in order
  \* ---- App
  appState,         \* state: "IDLE", "ANALYZING", "SUCCESS", "ERROR"
  currentVideo,     \* NoVideo, or the selected video
  analysisResult,   \* <<>>, or the analysis result in a sequence
  errorMsg,         \* <<>> (null), or the message shown
  abandoned,        \* calls of analyzeVideoScript still pending beside the latest one
  reading,          \* VideoUploader: the files a FileReader is reading
  \* ---- the rest of localResult, and the edit mode of the SceneCards
  title,
  summary,
  isEditing,        \* by scene id
  editedData,       \* by scene id: the draft
  nChange           \* history: the onChange events so far

aVars ==
  << file, apc, parts, startResponse, actualUploadUrl, uploadResponse, fileUri, getUrl,
     lastState, thrown, rejected, result, responseText, nInitiate, nTransfer, nPoll, nAnalyze,
     remoteFile, failedFrom >>

gVars == << aistudio, isGenerating, generatedVideoUrl, error, calls >>

vVars == << scenes, generatedVideos >>

mVars ==
  << isMerging, mergedVideoUrl, mergeProgress, mpc, videoUrlsToMerge, mi, cpc, played,
     drawn, canvas, recorder, alerted, genOrder, finished >>

sVars == << appState, currentVideo, analysisResult, errorMsg, abandoned, reading >>

eVars == << title, summary, isEditing, editedData, nChange >>

vars == << aVars, gVars, vVars, mVars, sVars, eVars >>

\* ------------------------------------------------------- uploadFileToGemini
\* Lines 80-82: append the key when the upload URL lacks it.
EnsureKey(url) ==
  IF Includes(url, "key=") THEN url
  ELSE IF Includes(url, "?") THEN url \o <<"&", "key=", "K">>
  ELSE url \o <<"?", "key=", "K">>

InitiateError_NoBody(r) ==
  Err("Error", <<"Failed to initiate upload:", r.status, r.statusText>>)

\* Line 71.
InitiateError(r) ==
  Err("Error", <<"Failed to initiate upload:", r.status, r.statusText, "-">> \o r.text)

TransferError_NoBody(r) ==
  Err("Error", <<"Failed to upload file bytes:", r.status, r.statusText>>)

\* Line 106.
TransferError(r) ==
  Err("Error", <<"Failed to upload file bytes:", r.status, r.statusText, "-">> \o r.text)

\* --------------------------------------------------------- waitForFileActive
\* Lines 121-132: the name polled, from a full URI, a short or a raw name.
FileName(uri) ==
  LET split == IF StartsWith(uri, "https://") /\ Includes(uri, "/files/")
               THEN <<"files/">> \o SubSeq(uri, 1 + (CHOOSE i \in 1..Len(uri) : uri[i] = "/files/"), Len(uri))
               ELSE uri
  IN IF ~StartsWith(split, "files/") /\ ~StartsWith(split, "https://")
     THEN <<"files/">> \o split
     ELSE split

\* Lines 135-140.
GetUrl(uri) ==
  LET fileName == FileName(uri)
  IN IF StartsWith(fileName, "https://")
     THEN fileName \o <<"?", "key=", "K">>
     ELSE <<"https://", "host/v1beta/">> \o fileName \o <<"?", "key=", "K">>

\* Line 148.
StatusError(r) == Err("Error", <<"Failed to check file status:">> \o r.text)

\* Line 158.
ProcessingFailed == Err("Error", <<"Video processing failed on Gemini servers.">>)

\* -------------------------------------------------------- analyzeVideoScript
NetworkError ==
  Err("Error", <<"Network error during analysis. If the file is large, please ensure your internet connection is stable or try a smaller clip.">>)

\* The catch block as it would be replacing every error.
Catch_Always(caught) == NetworkError

\* Lines 256-266: what the catch block re-throws.
Catch(caught) ==
  LET errorMessage == MessageOf(caught)
  IN IF \/ Includes(errorMessage, "Rpc failed")
        \/ Includes(errorMessage, "xhr error")
        \/ Includes(errorMessage, "code: 6")
     THEN NetworkError
     ELSE caught

\* The phase of the large-file transfer the call is in.
Phase ==
  IF file = NoFile \/ apc = "fileToBase64" \/ parts = "inlineData" THEN "Idle"
  ELSE CASE apc = "Initiating" -> "Initiating"
         [] apc = "Transferring" -> "Transferring"
         [] apc \in {"Polling", "Waiting"} -> "Polling"
         [] apc \in {"generateContent", "resolved"} -> "Active"
         [] apc = "rejected" -> IF nAnalyze > 0 THEN "Active"
                                ELSE IF nInitiate = 0 THEN "Idle" ELSE "Failed"
         [] OTHER -> "Idle"

\* A throw inside the try block: caught, then re-thrown by the catch block.
Throw(caught) ==
  /\ thrown' = caught
  /\ rejected' = Catch(caught)
  /\ apc' = "rejected"
  /\ failedFrom' = IF Phase = "Idle" \/ Phase = "Active" THEN failedFrom
                   ELSE failedFrom \cup {Phase}

UseInline_AtMost(f) == f.size <= INLINE_SIZE_LIMIT

\* Line 190: the size test.
UseInline(f) == f.size < INLINE_SIZE_LIMIT

\* The request as it would be when sent a second time.
SendAnalysis_Twice(part) ==
  /\ parts' = part
  /\ nAnalyze' = nAnalyze + 2
  /\ apc' = "generateContent"

\* Lines 221-246: the prompt is appended and the one analysis request goes out.
SendAnalysis(part) ==
  /\ parts' = part
  /\ nAnalyze' = nAnalyze + 1
  /\ apc' = "generateContent"

InitA ==
  /\ file = NoFile
  /\ apc = "idle"
  /\ parts = "none"
  /\ startResponse = NoStartResponse
  /\ actualUploadUrl = NoUrl
  /\ uploadResponse = NoUploadResponse
  /\ fileUri = <<>>
  /\ getUrl = <<>>
  /\ lastState = "none"
  /\ thrown = NoError
  /\ rejected = NoError
  /\ result = <<>>
  /\ responseText = "none"
  /\ nInitiate = 0
  /\ nTransfer = 0
  /\ nPoll = 0
  /\ nAnalyze = 0
  /\ remoteFile = "none"
  /\ failedFrom = {}

\* analyzeVideoScript(f) up to its first await: fileToBase64 starts reading, or
\* uploadFileToGemini issues the start request.
StartAnalysis(f) ==
  /\ file' = f
  /\ parts' = "none"
  /\ startResponse' = NoStartResponse
  /\ actualUploadUrl' = NoUrl
  /\ uploadResponse' = NoUploadResponse
  /\ fileUri' = <<>>
  /\ getUrl' = <<>>
  /\ lastState' = "none"
  /\ thrown' = NoError
  /\ rejected' = NoError
  /\ result' = <<>>
  /\ responseText' = "none"
  /\ nTransfer' = 0
  /\ nPoll' = 0
  /\ nAnalyze' = 0
  /\ remoteFile' = "none"
  /\ IF UseInline(f)
     THEN apc' = "fileToBase64" /\ nInitiate' = 0
     ELSE apc' = "Initiating" /\ nInitiate' = 1
  /\ UNCHANGED failedFrom

\* A call of analyzeVideoScript, none being pending.
analyzeVideoScript ==
  \E f \in Files : apc \in {"idle", "resolved", "rejected"} /\ StartAnalysis(f)

\* fileToBase64: reader.onload.
fileToBase64Loaded ==
  /\ apc = "fileToBase64"
  /\ SendAnalysis("inlineData")
  /\ UNCHANGED << file, startResponse, actualUploadUrl, uploadResponse, fileUri, getUrl,
                  lastState, thrown, rejected, result, responseText, nInitiate, nTransfer, nPoll,
                  remoteFile, failedFrom >>

\* fileToBase64: reader.onerror rejects with the event.
fileToBase64Error ==
  /\ apc = "fileToBase64"
  /\ Throw(Err("ProgressEvent", <<>>))
  /\ UNCHANGED << file, parts, startResponse, actualUploadUrl, uploadResponse, fileUri,
                  getUrl, lastState, result, responseText, nInitiate, nTransfer, nPoll, nAnalyze,
                  remoteFile >>

\* uploadFileToGemini, line 57: the start request gets no response.
InitiateRejected ==
  /\ apc = "Initiating"
  /\ Throw(FetchRejected)
  /\ UNCHANGED << file, parts, startResponse, actualUploadUrl, uploadResponse, fileUri,
                  getUrl, lastState, result, responseText, nInitiate, nTransfer, nPoll, nAnalyze,
                  remoteFile >>

\* uploadFileToGemini, lines 69-101: the start response.  Not ok, or without
\* the upload URL: throw.  Otherwise the bytes are PUT to the upload URL.
InitiateResponse(r) ==
  /\ apc = "Initiating"
  /\ startResponse' = r
  /\ IF ~r.ok
     THEN /\ Throw(InitiateError(r))
          /\ UNCHANGED << actualUploadUrl, nTransfer >>
     ELSE IF r.uploadUrl = NoUrl
     THEN /\ Throw(Err("Error", <<"No upload URL returned from Gemini API">>))
          /\ UNCHANGED << actualUploadUrl, nTransfer >>
     ELSE /\ actualUploadUrl' = EnsureKey(r.uploadUrl)
          /\ nTransfer' = nTransfer + 1
          /\ apc' = "Transferring"
          /\ UNCHANGED << thrown, rejected, failedFrom >>
  /\ UNCHANGED << file, parts, uploadResponse, fileUri, getUrl, lastState, result, responseText,
                  nInitiate, nPoll, nAnalyze, remoteFile >>

Initiated == \E r \in StartResponses : InitiateResponse(r)

\* uploadFileToGemini, line 91: the transfer request gets no response.
TransferRejected ==
  /\ apc = "Transferring"
  /\ Throw(FetchRejected)
  /\ UNCHANGED << file, parts, startResponse, actualUploadUrl, uploadResponse, fileUri,
                  getUrl, lastState, result, responseText, nInitiate, nTransfer, nPoll, nAnalyze,
                  remoteFile >>

\* The transfer as it would be with the PUT re-issued on a failed response.
TransferResponse_Retry(r) ==
  /\ apc = "Transferring"
  /\ uploadResponse' = r
  /\ IF ~r.ok
     THEN /\ nTransfer' = nTransfer + 1
          /\ UNCHANGED << apc, thrown, rejected, failedFrom, fileUri, getUrl, nPoll,
                          remoteFile >>
     ELSE IF r.json # "file"
     THEN /\ Throw(Err("TypeError", <<"Cannot read properties of undefined">>))
          /\ UNCHANGED << fileUri, getUrl, nPoll, remoteFile, nTransfer >>
     ELSE /\ fileUri' = r.uri
          /\ getUrl' = GetUrl(r.uri)
          /\ remoteFile' \in {"PROCESSING", "STATE_UNSPECIFIED", "ACTIVE"}
          /\ nPoll' = Count(nPoll, MaxPolls)
          /\ apc' = "Polling"
          /\ UNCHANGED << thrown, rejected, failedFrom, nTransfer >>
  /\ UNCHANGED << file, parts, startResponse, actualUploadUrl, lastState, result, responseText,
                  nInitiate, nAnalyze >>

\* uploadFileToGemini, lines 103-111, then waitForFileActive, lines 117-145:
\* the transfer response.  Not ok: throw.  A body that is no JSON, or has no
\* file, or no file.uri (a TypeError at fileUri.startsWith): throw.  Otherwise
\* the URI is returned, the status URL is built and the first status fetch
\* is issued.
TransferResponse(r) ==
  /\ apc = "Transferring"
  /\ uploadResponse' = r
  /\ IF ~r.ok
     THEN /\ Throw(TransferError(r))
          /\ UNCHANGED << fileUri, getUrl, nPoll, remoteFile >>
     ELSE IF r.json = "invalid"
     THEN /\ Throw(Err("SyntaxError", <<"Unexpected token">>))
          /\ UNCHANGED << fileUri, getUrl, nPoll, remoteFile >>
     ELSE IF r.json \in {"nofile", "nouri"}
     THEN /\ Throw(Err("TypeError", <<"Cannot read properties of undefined">>))
          /\ UNCHANGED << fileUri, getUrl, nPoll, remoteFile >>
     ELSE /\ fileUri' = r.uri
          /\ getUrl' = GetUrl(r.uri)
          /\ remoteFile' \in {"PROCESSING", "STATE_UNSPECIFIED", "ACTIVE"}
          /\ nPoll' = Count(nPoll, MaxPolls)
          /\ apc' = "Polling"
          /\ UNCHANGED << thrown, rejected, failedFrom >>
  /\ UNCHANGED << file, parts, startResponse, actualUploadUrl, lastState, result, responseText,
                  nInitiate, nTransfer, nAnalyze >>

Transferred == \E r \in UploadResponses : TransferResponse(r)

\* The remote service works on the uploaded file.
RemoteProcess ==
  /\ remoteFile \in {"PROCESSING", "STATE_UNSPECIFIED"}
  /\ remoteFile' \in {"PROCESSING", "ACTIVE", "FAILED"}
  /\ remoteFile' # remoteFile
  /\ UNCHANGED << file, apc, parts, startResponse, actualUploadUrl, uploadResponse,
                  fileUri, getUrl, lastState, thrown, rejected, result, responseText, nInitiate,
                  nTransfer, nPoll, nAnalyze, failedFrom >>

\* The status fetch as it would be with a failed fetch tried again after the
\* delay.
StatusFails_Retry ==
  /\ apc = "Polling"
  /\ thrown' = FetchRejected
  /\ apc' = "Waiting"
  /\ UNCHANGED << file, parts, startResponse, actualUploadUrl, uploadResponse, fileUri,
                  getUrl, lastState, rejected, result, responseText, nInitiate, nTransfer,
                  nPoll, nAnalyze, remoteFile, failedFrom >>

\* waitForFileActive, lines 145-151: the status fetch fails (no response, a
\* response that is not ok, a body that is no JSON).
StatusFails ==
  /\ apc = "Polling"
  /\ \/ Throw(FetchRejected)
     \/ \E r \in HttpErrors : Throw(StatusError(r))
     \/ Throw(Err("SyntaxError", <<"Unexpected token">>))
  /\ UNCHANGED << file, parts, startResponse, actualUploadUrl, uploadResponse, fileUri,
                  getUrl, lastState, result, responseText, nInitiate, nTransfer, nPoll, nAnalyze,
                  remoteFile >>

\* The status check as it would be with every state but PROCESSING and FAILED
\* taken as ready.
StatusResponse_NotProcessing(state) ==
  /\ apc = "Polling"
  /\ lastState' = state
  /\ IF state = "PROCESSING"
     THEN /\ apc' = "Waiting"
          /\ UNCHANGED << parts, nAnalyze, thrown, rejected, failedFrom >>
     ELSE IF state = "FAILED"
     THEN /\ Throw(ProcessingFailed)
          /\ UNCHANGED << parts, nAnalyze >>
     ELSE /\ SendAnalysis("fileData")
          /\ UNCHANGED << thrown, rejected, failedFrom >>
  /\ UNCHANGED << file, startResponse, actualUploadUrl, uploadResponse, fileUri, getUrl,
                  result, responseText, nInitiate, nTransfer, nPoll, remoteFile >>

\* The status check as it would be with a failed file uploaded again.
StatusResponse_Reupload(state) ==
  /\ apc = "Polling"
  /\ lastState' = state
  /\ IF state = "ACTIVE"
     THEN /\ SendAnalysis("fileData")
          /\ UNCHANGED << thrown, rejected, failedFrom, nTransfer >>
     ELSE IF state = "FAILED"
     THEN /\ apc' = "Transferring"
          /\ nTransfer' = 1
          /\ UNCHANGED << parts, nAnalyze, thrown, rejected, failedFrom >>
     ELSE /\ apc' = "Waiting"
          /\ UNCHANGED << parts, nAnalyze, thrown, rejected, failedFrom, nTransfer >>
  /\ UNCHANGED << file, startResponse, actualUploadUrl, uploadResponse, fileUri, getUrl,
                  result, responseText, nInitiate, nPoll, remoteFile >>

\* waitForFileActive, lines 151-162: the status response is read.  ACTIVE
\* returns to analyzeVideoScript, which sends the analysis request; FAILED
\* throws; anything else sleeps 5 seconds.
StatusResponse(state) ==
  /\ apc = "Polling"
  /\ lastState' = state
  /\ IF state = "ACTIVE"
     THEN /\ SendAnalysis("fileData")
          /\ UNCHANGED << thrown, rejected, failedFrom >>
     ELSE IF state = "FAILED"
     THEN /\ Throw(ProcessingFailed)
          /\ UNCHANGED << parts, nAnalyze >>
     ELSE /\ apc' = "Waiting"
          /\ UNCHANGED << parts, nAnalyze, thrown, rejected, failedFrom >>
  /\ UNCHANGED << file, startResponse, actualUploadUrl, uploadResponse, fileUri, getUrl,
                  result, responseText, nInitiate, nTransfer, nPoll, remoteFile >>

StatusRead == StatusResponse(remoteFile)

\* The timer as it would be with the attempts capped and a timeout thrown.
PollTimer_Capped ==
  /\ apc = "Waiting"
  /\ lastState' = "none"
  /\ IF nPoll < MaxPolls
     THEN /\ nPoll' = nPoll + 1
          /\ apc' = "Polling"
          /\ UNCHANGED << thrown, rejected, failedFrom >>
     ELSE /\ Throw(Err("Error", <<"Timed out waiting for the file">>))
          /\ UNCHANGED nPoll
  /\ UNCHANGED << file, parts, startResponse, actualUploadUrl, uploadResponse, fileUri,
                  getUrl, result, responseText, nInitiate, nTransfer, nAnalyze, remoteFile >>

\* waitForFileActive, lines 162 and 145: the 5 s timer fires and the next
\* iteration issues its status fetch.
PollTimer ==
  /\ apc = "Waiting"
  /\ nPoll' = Count(nPoll, MaxPolls)
  /\ lastState' = "none"
  /\ apc' = "Polling"
  /\ UNCHANGED << file, parts, startResponse, actualUploadUrl, uploadResponse, fileUri,
                  getUrl, thrown, rejected, result, responseText, nInitiate, nTransfer, nAnalyze,
                  remoteFile, failedFrom >>

\* Line 253: JSON.parse(text) as AnalysisResult, the document's members as
\* they are; nothing is validated.
JSONParse(text) ==
  [title |-> TRUE, summary |-> TRUE, scenes |-> (text = "{title,summary,scenes}")]

\* The response as it would be read without the test of its text.
generateContentDone_NoTextCheck ==
  /\ apc = "generateContent"
  /\ \/ \E m \in {<<"Rpc failed", "due to", "xhr error">>, <<"Rpc failed">>, <<"got", "xhr error">>,
                  <<"Internal error">>} :
          Throw(Err("Error", m)) /\ UNCHANGED << result, responseText >>
     \/ \E text \in ResponseTexts :
          /\ responseText' = text
          /\ IF text \in {"undefined", "", "garbage"}
             THEN Throw(Err("SyntaxError", <<"Unexpected token">>)) /\ UNCHANGED result
             ELSE /\ result' = <<JSONParse(text)>>
                  /\ apc' = "resolved"
                  /\ UNCHANGED << thrown, rejected, failedFrom >>
  /\ UNCHANGED << file, parts, startResponse, actualUploadUrl, uploadResponse, fileUri,
                  getUrl, lastState, nInitiate, nTransfer, nPoll, nAnalyze, remoteFile >>

\* Lines 238-254: the analysis request fails, or its response is read.
generateContentDone ==
  /\ apc = "generateContent"
  /\ \/ \E m \in {<<"Rpc failed", "due to", "xhr error">>, <<"Rpc failed">>, <<"got", "xhr error">>,
                  <<"Internal error">>} :
          Throw(Err("Error", m)) /\ UNCHANGED << result, responseText >>
     \/ \E text \in ResponseTexts :
          /\ responseText' = text
          /\ IF text \in {"undefined", ""}
             THEN Throw(Err("Error", <<"No response text received from Gemini.">>))
                  /\ UNCHANGED result
             ELSE IF text = "garbage"
             THEN Throw(Err("SyntaxError", <<"Unexpected token">>)) /\ UNCHANGED result
             ELSE /\ result' = <<JSONParse(text)>>
                  /\ apc' = "resolved"
                  /\ UNCHANGED << thrown, rejected, failedFrom >>
  /\ UNCHANGED << file, parts, startResponse, actualUploadUrl, uploadResponse, fileUri,
                  getUrl, lastState, nInitiate, nTransfer, nPoll, nAnalyze, remoteFile >>

NextA ==
  \/ analyzeVideoScript /\ UNCHANGED << gVars, vVars, mVars, sVars, eVars >>
  \/ fileToBase64Loaded /\ UNCHANGED << gVars, vVars, mVars, sVars, eVars >>
  \/ fileToBase64Error /\ UNCHANGED << gVars, vVars, mVars, sVars, eVars >>
  \/ InitiateRejected /\ UNCHANGED << gVars, vVars, mVars, sVars, eVars >>
  \/ Initiated /\ UNCHANGED << gVars, vVars, mVars, sVars, eVars >>
  \/ TransferRejected /\ UNCHANGED << gVars, vVars, mVars, sVars, eVars >>
  \/ Transferred /\ UNCHANGED << gVars, vVars, mVars, sVars, eVars >>
  \/ RemoteProcess /\ UNCHANGED << gVars, vVars, mVars, sVars, eVars >>
  \/ StatusFails /\ UNCHANGED << gVars, vVars, mVars, sVars, eVars >>
  \/ StatusRead /\ UNCHANGED << gVars, vVars, mVars, sVars, eVars >>
  \/ PollTimer /\ UNCHANGED << gVars, vVars, mVars, sVars, eVars >>
  \/ generateContentDone /\ UNCHANGED << gVars, vVars, mVars, sVars, eVars >>

\* ------------------------------------------------------- AnalysisResultView
SceneIds == 1..NumScenes

\* An object URL is <<s, k>>: the k-th blob of the session, holding the clip
\* generated for scene s.  NoClip is the absent (falsy) entry.
NoClip == <<>>

\* The update as it would be without spreading the previous map.
handleVideoGenerated_Replace(sceneId, url) ==
  generatedVideos' = [s \in SceneIds |-> IF s = sceneId THEN url ELSE NoClip]

\* Lines 32-37.
handleVideoGenerated(sceneId, url) ==
  generatedVideos' = [generatedVideos EXCEPT ![sceneId] = url]

\* --------------------------------------------------------- generateVeoVideo
\* What the remote operation turns into when done: a video, an embedded
\* error, or a response without a video URI.
Outcomes ==
  { [kind |-> "video", message |-> <<>>],
    [kind |-> "error", message |-> <<"quota exceeded">>],
    [kind |-> "nouri", message |-> <<>>] }

NoOutcome == [kind |-> "none", message |-> <<>>]

\* The scene with id s as the analysis returned it.
Scene(s) ==
  [id |-> s,
   timeRange |-> <<"timeRange", s>>,
   visualDescription |-> <<"visualDescription", s>>,
   cameraMovement |-> <<"cameraMovement", s>>,
   aiImagePrompt |-> <<"aiImagePrompt", s>>,
   aiVideoPrompt |-> <<"aiVideoPrompt", s>>,
   voiceoverScript |-> <<"voiceoverScript", s>>]

\* The ids of the scene cards rendered (line 185: the cards are keyed by id).
CardIds == {scenes[i].id : i \in 1..Len(scenes)}

SceneWithId(list, s) == list[CHOOSE i \in 1..Len(list) : list[i].id = s]

\* An invocation of handleGenerateVideo for a scene, before its first await.
\* The handler closes over the scene prop of the render it was created in:
\* captured is that scene's aiVideoPrompt; prompt is what generateVeoVideo is
\* called with, once it is.
NewCall(s) ==
  [scene |-> s, pc |-> "start", flip |-> 0, outcome |-> NoOutcome, done |-> FALSE,
   nStatus |-> 0, nDownload |-> 0, err |-> <<>>, url |-> NoClip,
   captured |-> SceneWithId(scenes, s).aiVideoPrompt, prompt |-> <<>>]

CallIds == 1..Len(calls)

\* Line 538: the Generate button of a card is rendered.
GenerateShown(s) == generatedVideoUrl[s] = NoClip /\ ~isGenerating[s]

\* The request as it would be reading the prompt from the card's draft.
StartGeneration_Draft(c, call) ==
  /\ isGenerating' = [isGenerating EXCEPT ![call.scene] = TRUE]
  /\ error' = [error EXCEPT ![call.scene] = <<>>]
  /\ generatedVideoUrl' = [generatedVideoUrl EXCEPT ![call.scene] = NoClip]
  /\ calls' = [calls EXCEPT ![c] = [call EXCEPT !.pc = "generateVideos",
                                                !.prompt = editedData[call.scene].aiVideoPrompt]]

\* Lines 343-366: the card is set generating and generateVeoVideo issues the
\* generation request.
StartGeneration(c, call) ==
  /\ isGenerating' = [isGenerating EXCEPT ![call.scene] = TRUE]
  /\ error' = [error EXCEPT ![call.scene] = <<>>]
  /\ generatedVideoUrl' = [generatedVideoUrl EXCEPT ![call.scene] = NoClip]
  /\ calls' = [calls EXCEPT ![c] = [call EXCEPT !.pc = "generateVideos",
                                                !.prompt = call.captured]]

\* A call of generateVeoVideo that has settled: its operation handle is gone,
\* what it downloaded, returned or threw stays on record.
Settled(call, pc, message, url) ==
  [call EXCEPT !.pc = pc, !.err = message, !.url = url,
               !.flip = 0, !.done = FALSE, !.nStatus = 0]

\* Lines 369-375 (and 334-337): the error is shown on the card, the card is
\* no longer generating; nothing is recorded in generatedVideos.
FailGeneration(c, call, message) ==
  /\ error' = [error EXCEPT ![call.scene] =
                 IF message = <<>> THEN <<"Failed to generate video">> ELSE message]
  /\ isGenerating' = [isGenerating EXCEPT ![call.scene] = FALSE]
  /\ calls' = [calls EXCEPT ![c] = Settled(call, "failed", message, NoClip)]
  /\ UNCHANGED << generatedVideoUrl, generatedVideos >>

\* Line 316.
GenerationError(op) == <<"Veo generation failed:">> \o op.outcome.message

AfterLoop_NoErrorCheck(c, call) ==
  IF call.outcome.kind # "video"
  THEN FailGeneration(c, call, <<"No video URI returned from Veo.">>)
  ELSE /\ calls' = [calls EXCEPT ![c] = [call EXCEPT !.pc = "download",
                                                     !.nDownload = call.nDownload + 1]]
       /\ UNCHANGED << isGenerating, generatedVideoUrl, error, generatedVideos >>

\* Lines 315-326: the operation is done.  An embedded error, or no video
\* URI: throw.  Otherwise the video is fetched.
AfterLoop(c, call) ==
  IF call.outcome.kind = "error"
  THEN FailGeneration(c, call, GenerationError(call))
  ELSE IF call.outcome.kind = "nouri"
  THEN FailGeneration(c, call, <<"No video URI returned from Veo.">>)
  ELSE /\ calls' = [calls EXCEPT ![c] = [call EXCEPT !.pc = "download",
                                                     !.nDownload = call.nDownload + 1]]
       /\ UNCHANGED << isGenerating, generatedVideoUrl, error, generatedVideos >>

LoopTest_DoWhile(c, call) ==
  /\ calls' = [calls EXCEPT ![c] = [call EXCEPT !.pc = "sleep"]]
  /\ UNCHANGED << isGenerating, generatedVideoUrl, error, generatedVideos >>

\* Lines 309-310: while (!operation.done) sleep 5 s.  The operation that is
\* done carries its outcome.
LoopTest(c, call) ==
  IF call.done
  THEN \E o \in Outcomes : AfterLoop(c, [call EXCEPT !.outcome = o])
  ELSE /\ calls' = [calls EXCEPT ![c] = [call EXCEPT !.pc = "sleep"]]
       /\ UNCHANGED << isGenerating, generatedVideoUrl, error, generatedVideos >>

InitG ==
  /\ scenes = [i \in 1..NumCards |-> Scene(i)]
  /\ generatedVideos = [s \in SceneIds |-> NoClip]
  /\ aistudio \in BOOLEAN
  /\ isGenerating = [s \in SceneIds |-> FALSE]
  /\ generatedVideoUrl = [s \in SceneIds |-> NoClip]
  /\ error = [s \in SceneIds |-> <<>>]
  /\ calls = <<>>

\* handleGenerateVideo, lines 330-366, up to its first await: the key check
\* when window.aistudio exists, the generation request otherwise.
handleGenerateVideo(s) ==
  /\ ~isEditing[s]
  /\ GenerateShown(s)
  /\ Len(calls) < MaxCalls
  /\ LET c == Len(calls) + 1
     IN IF aistudio
        THEN /\ calls' = Append(calls, [NewCall(s) EXCEPT !.pc = "hasSelectedApiKey"])
             /\ UNCHANGED << isGenerating, generatedVideoUrl, error >>
        ELSE StartGeneration(c, NewCall(s)) /\ Len(calls') = c
  /\ UNCHANGED << aistudio, scenes, generatedVideos >>

GenerateClicked == \E i \in 1..Len(scenes) : handleGenerateVideo(scenes[i].id)

\* Lines 332-335: hasSelectedApiKey settles.  A rejection ends the handler
\* (it is outside the try).
hasSelectedApiKeyDone(c) ==
  /\ calls[c].pc = "hasSelectedApiKey"
  /\ \/ /\ calls' = [calls EXCEPT ![c].pc = "aborted"]
        /\ UNCHANGED << isGenerating, generatedVideoUrl, error >>
     \/ /\ calls' = [calls EXCEPT ![c].pc = "openSelectKey"]
        /\ UNCHANGED << isGenerating, generatedVideoUrl, error >>
     \/ StartGeneration(c, calls[c])
  /\ UNCHANGED << aistudio, scenes, generatedVideos >>

\* Lines 334-339: openSelectKey settles.
openSelectKeyDone(c) ==
  /\ calls[c].pc = "openSelectKey"
  /\ \/ /\ error' = [error EXCEPT ![calls[c].scene] =
                       <<"API Key selection failed or was cancelled.">>]
        /\ calls' = [calls EXCEPT ![c].pc = "aborted"]
        /\ UNCHANGED << isGenerating, generatedVideoUrl >>
     \/ StartGeneration(c, calls[c])
  /\ UNCHANGED << aistudio, scenes, generatedVideos >>

\* generateVeoVideo, lines 282-310: the generation request fails, or returns
\* the operation, which turns done after flip polls.
generateVideosDone(c) ==
  /\ calls[c].pc = "generateVideos"
  /\ \/ FailGeneration(c, calls[c], <<"Failed to fetch">>)
     \/ \E n \in 0..MaxFlip :
          LoopTest(c, [calls[c] EXCEPT !.flip = n, !.done = (n = 0)])
  /\ UNCHANGED << aistudio, scenes >>

\* Lines 310-311: the 5 s timer fires and the operation's status is fetched.
sleepDone(c) ==
  /\ calls[c].pc = "sleep"
  /\ calls' = [calls EXCEPT ![c].pc = "getVideosOperation",
                            ![c].nStatus = calls[c].nStatus + 1]
  /\ UNCHANGED << aistudio, scenes, generatedVideos, isGenerating, generatedVideoUrl,
                  error >>

\* Lines 311-313 and 309: the status fetch fails, or returns the operation.
getVideosOperationDone(c) ==
  /\ calls[c].pc = "getVideosOperation"
  /\ \/ FailGeneration(c, calls[c], <<>>)
     \/ LoopTest(c, [calls[c] EXCEPT !.done = (calls[c].nStatus >= calls[c].flip)])
  /\ UNCHANGED << aistudio, scenes >>

\* Lines 326-332 and 367-368: the download fails, or the blob gets its
\* object URL, which the card shows and hands to the view.
downloadDone(c) ==
  /\ calls[c].pc = "download"
  /\ \/ FailGeneration(c, calls[c], <<"Failed to download generated video:", "Forbidden">>)
     \/ LET url == <<calls[c].scene, c>>
        IN /\ calls' = [calls EXCEPT ![c] = Settled(calls[c], "done", <<>>, url)]
           /\ generatedVideoUrl' = [generatedVideoUrl EXCEPT ![calls[c].scene] = url]
           /\ handleVideoGenerated(calls[c].scene, url)
           /\ isGenerating' = [isGenerating EXCEPT ![calls[c].scene] = FALSE]
           /\ UNCHANGED error
  /\ UNCHANGED << aistudio, scenes >>

\* Line 645: Generate New Version.
discardClip(s) ==
  /\ generatedVideoUrl[s] # NoClip
  /\ generatedVideoUrl' = [generatedVideoUrl EXCEPT ![s] = NoClip]
  /\ UNCHANGED << aistudio, scenes, generatedVideos, isGenerating, error, calls >>

NextG ==
  \/ GenerateClicked /\ UNCHANGED << aVars, mVars, sVars, eVars >>
  \/ \E c \in CallIds : hasSelectedApiKeyDone(c) /\ UNCHANGED << aVars, mVars, sVars, eVars >>
  \/ \E c \in CallIds : openSelectKeyDone(c) /\ UNCHANGED << aVars, mVars, sVars, eVars >>
  \/ \E c \in CallIds : generateVideosDone(c) /\ UNCHANGED << aVars, mVars, sVars, eVars >>
  \/ \E c \in CallIds : sleepDone(c) /\ UNCHANGED << aVars, mVars, sVars, eVars >>
  \/ \E c \in CallIds : getVideosOperationDone(c) /\ UNCHANGED << aVars, mVars, sVars, eVars >>
  \/ \E c \in CallIds : downloadDone(c) /\ UNCHANGED << aVars, mVars, sVars, eVars >>
  \/ \E s \in SceneIds : discardClip(s) /\ UNCHANGED << aVars, mVars, sVars, eVars >>

\* --------------------------------------------------------- handleMergeVideos
\* Insert a scene into a list sorted by id, after the scenes of equal id
\* (Array.prototype.sort is stable).
RECURSIVE Insert(_, _)
Insert(x, sorted) ==
  IF sorted = <<>> THEN <<x>>
  ELSE IF x.id - Head(sorted).id < 0 THEN <<x>> \o sorted
  ELSE <<Head(sorted)>> \o Insert(x, Tail(sorted))

RECURSIVE SortFrom(_, _)
SortFrom(list, sorted) ==
  IF list = <<>> THEN sorted ELSE SortFrom(Tail(list), Insert(Head(list), sorted))

SortById_Unsorted(list) == list

\* Line 48: scenes.sort((a, b) => a.id - b.id).
SortById(list) == SortFrom(list, <<>>)

\* The filter as it would be keeping every entry.
Truthy_KeepAll(urls) == urls

RECURSIVE Truthy(_)
\* Line 51: filter(url => !!url).
Truthy(urls) ==
  IF urls = <<>> THEN <<>>
  ELSE IF Head(urls) # NoClip THEN <<Head(urls)>> \o Truthy(Tail(urls))
  ELSE Truthy(Tail(urls))

\* Lines 49-51.
UrlsToMerge(orderedScenes) ==
  Truthy([i \in 1..Len(orderedScenes) |-> generatedVideos[orderedScenes[i].id]])

NoMerged == <<>>

\* Lines 125-126: the object URL of the blob recorded from the canvas.
MergedUrl(clips) == <<"blob", clips>>

\* Line 83.
Progress(i, n) == <<"Processing scene", i, "of", n>>

\* Line 138.
readySceneCount == Cardinality({s \in SceneIds : generatedVideos[s] # NoClip})

\* The button as it would be when disabled only while no clip exists.
MergeEnabled_ClipsOnly == ~(readySceneCount = 0)

\* Line 235: the merge button is enabled.
MergeEnabled == ~(readySceneCount = 0 \/ isMerging)

InitM ==
  /\ isMerging = FALSE
  /\ mergedVideoUrl = NoMerged
  /\ mergeProgress = <<>>
  /\ mpc = "idle"
  /\ videoUrlsToMerge = <<>>
  /\ mi = 0
  /\ cpc = "none"
  /\ played = <<>>
  /\ drawn = <<>>
  /\ canvas = NoClip
  /\ recorder = "none"
  /\ alerted = FALSE
  /\ genOrder = <<>>
  /\ finished = <<>>

\* A scene card reports a generated clip (lines 189 and 32-37).
onVideoSuccess(s) ==
  /\ Len(genOrder) < MaxClips
  /\ handleVideoGenerated(s, <<s, Len(genOrder) + 1>>)
  /\ genOrder' = Append(genOrder, s)
  /\ UNCHANGED << scenes, isMerging, mergedVideoUrl, mergeProgress, mpc, videoUrlsToMerge,
                  mi, cpc, played, drawn, canvas, recorder, alerted, finished >>

VideoGenerated == \E i \in 1..Len(scenes) : onVideoSuccess(scenes[i].id)

\* The handler as it would be without the return for an empty clip list: the
\* recorder is started and, with no clip to play, stopped at once.
handleMergeVideos_NoEmptyCheck(env) ==
  LET orderedScenes == SortById(scenes)
      urls == UrlsToMerge(orderedScenes)
  IN /\ scenes' = orderedScenes
     /\ IF env # "ok"
        THEN /\ mergedVideoUrl' = NoMerged
             /\ alerted' = TRUE
             /\ isMerging' = FALSE
             /\ mergeProgress' = <<>>
             /\ UNCHANGED << mpc, videoUrlsToMerge, mi, cpc, played, drawn, canvas,
                             recorder, finished >>
        ELSE /\ isMerging' = TRUE
             /\ mergedVideoUrl' = NoMerged
             /\ alerted' = FALSE
             /\ videoUrlsToMerge' = urls
             /\ drawn' = <<>>
             /\ finished' = <<>>
             /\ canvas' = NoClip
             /\ IF Len(urls) = 0
                THEN /\ recorder' = "inactive"
                     /\ mi' = 0
                     /\ mergeProgress' = <<"Initializing studio...">>
                     /\ played' = <<>>
                     /\ cpc' = "none"
                     /\ mpc' = "stopping"
                ELSE /\ recorder' = "recording"
                     /\ mi' = 1
                     /\ mergeProgress' = Progress(1, Len(urls))
                     /\ played' = <<urls[1]>>
                     /\ cpc' = "loading"
                     /\ mpc' = "clip"
     /\ UNCHANGED << generatedVideos, genOrder >>

\* The handler as it would be with the previous output cleared only once a
\* new one is ready.
handleMergeVideos_KeepOutput(env) ==
  LET orderedScenes == SortById(scenes)
      urls == UrlsToMerge(orderedScenes)
  IN /\ scenes' = orderedScenes
     /\ IF Len(urls) = 0
        THEN UNCHANGED << isMerging, mergedVideoUrl, mergeProgress, mpc, videoUrlsToMerge,
                          mi, cpc, played, drawn, canvas, recorder, alerted, finished >>
        ELSE IF env # "ok"
        THEN /\ alerted' = TRUE
             /\ isMerging' = FALSE
             /\ mergeProgress' = <<>>
             /\ UNCHANGED << mergedVideoUrl, mpc, videoUrlsToMerge, mi, cpc, played, drawn,
                             canvas, recorder, finished >>
        ELSE /\ isMerging' = TRUE
             /\ alerted' = FALSE
             /\ recorder' = "recording"
             /\ videoUrlsToMerge' = urls
             /\ mi' = 1
             /\ mergeProgress' = Progress(1, Len(urls))
             /\ played' = <<urls[1]>>
             /\ drawn' = <<>>
             /\ finished' = <<>>
             /\ canvas' = NoClip
             /\ cpc' = "loading"
             /\ mpc' = "clip"
             /\ UNCHANGED mergedVideoUrl
     /\ UNCHANGED << generatedVideos, genOrder >>

\* handleMergeVideos, lines 46-116, up to its first await.  The scenes are
\* sorted in place; without clips the handler returns; a missing 2d context
\* or a rejected recorder configuration throws into the catch block; otherwise
\* recording starts and the first clip is loaded and played.
handleMergeVideos(env) ==
  LET orderedScenes == SortById(scenes)
      urls == UrlsToMerge(orderedScenes)
  IN /\ scenes' = orderedScenes
     /\ IF Len(urls) = 0
        THEN UNCHANGED << isMerging, mergedVideoUrl, mergeProgress, mpc, videoUrlsToMerge,
                          mi, cpc, played, drawn, canvas, recorder, alerted, finished >>
        ELSE IF env # "ok"
        THEN /\ mergedVideoUrl' = NoMerged
             /\ alerted' = TRUE
             /\ isMerging' = FALSE
             /\ mergeProgress' = <<>>
             /\ UNCHANGED << mpc, videoUrlsToMerge, mi, cpc, played, drawn, canvas,
                             recorder, finished >>
        ELSE /\ isMerging' = TRUE
             /\ mergedVideoUrl' = NoMerged
             /\ alerted' = FALSE
             /\ recorder' = "recording"
             /\ videoUrlsToMerge' = urls
             /\ mi' = 1
             /\ mergeProgress' = Progress(1, Len(urls))
             /\ played' = <<urls[1]>>
             /\ drawn' = <<>>
             /\ finished' = <<>>
             /\ canvas' = NoClip
             /\ cpc' = "loading"
             /\ mpc' = "clip"
     /\ UNCHANGED << generatedVideos, genOrder >>

\* The merge button, lines 233-235: disabled without clips and while merging.
MergeClicked ==
  /\ MergeEnabled
  /\ \E env \in {"ok", "no2d", "norecorder"} : handleMergeVideos(env)

\* Lines 88-94: onloadedmetadata; the first clip sizes the canvas.
onloadedmetadata ==
  /\ mpc = "clip"
  /\ cpc = "loading"
  /\ cpc' = "loaded"
  /\ canvas' = IF mi - 1 = 0 THEN videoUrlsToMerge[mi] ELSE canvas
  /\ UNCHANGED << scenes, generatedVideos, genOrder, isMerging, mergedVideoUrl,
                  mergeProgress, mpc, videoUrlsToMerge, mi, played, drawn, recorder,
                  alerted, finished >>

\* The clip's promise as it would be resolved when playback starts: the next
\* clip is loaded, or the recorder stopped, while this one still plays.
playResolved_NoWait ==
  /\ mpc = "clip"
  /\ cpc = "loaded"
  /\ drawn' = Append(drawn, videoUrlsToMerge[mi])
  /\ IF mi < Len(videoUrlsToMerge)
     THEN /\ mi' = mi + 1
          /\ mergeProgress' = Progress(mi + 1, Len(videoUrlsToMerge))
          /\ played' = Append(played, videoUrlsToMerge[mi + 1])
          /\ cpc' = "loading"
          /\ UNCHANGED << mpc, recorder >>
     ELSE /\ recorder' = "inactive"
          /\ cpc' = "none"
          /\ mpc' = "stopping"
          /\ UNCHANGED << mi, mergeProgress, played >>
  /\ UNCHANGED << scenes, generatedVideos, genOrder, isMerging, mergedVideoUrl,
                  videoUrlsToMerge, canvas, alerted, finished >>

\* Lines 105-111: play() resolves and drawFrame draws the clip's frames.
playResolved ==
  /\ mpc = "clip"
  /\ cpc = "loaded"
  /\ cpc' = "playing"
  /\ drawn' = Append(drawn, videoUrlsToMerge[mi])
  /\ UNCHANGED << scenes, generatedVideos, genOrder, isMerging, mergedVideoUrl,
                  mergeProgress, mpc, videoUrlsToMerge, mi, played, canvas, recorder,
                  alerted, finished >>

\* Lines 81-86 and 119-123: the clip's promise is resolved by the event how;
\* the next clip is loaded and played, or the recorder is stopped after the
\* last one.
NextClip(how) ==
  /\ finished' = Append(finished, [clip |-> videoUrlsToMerge[mi], how |-> how])
  /\ IF mi < Len(videoUrlsToMerge)
     THEN /\ mi' = mi + 1
          /\ mergeProgress' = Progress(mi + 1, Len(videoUrlsToMerge))
          /\ played' = Append(played, videoUrlsToMerge[mi + 1])
          /\ cpc' = "loading"
          /\ UNCHANGED << mpc, recorder >>
     ELSE /\ recorder' = "inactive"
          /\ cpc' = "none"
          /\ mpc' = "stopping"
          /\ UNCHANGED << mi, mergeProgress, played >>
  /\ UNCHANGED << scenes, generatedVideos, genOrder, isMerging, mergedVideoUrl,
                  videoUrlsToMerge, drawn, canvas, alerted >>

\* Lines 96-98.
onended == mpc = "clip" /\ cpc = "playing" /\ NextClip("ended")

\* The error handler as it would be rejecting the clip's promise: the catch
\* block alerts and the merge ends without output.
onerror_Rejects ==
  /\ mpc = "clip"
  /\ cpc \in {"loading", "loaded", "playing"}
  /\ finished' = Append(finished, [clip |-> videoUrlsToMerge[mi], how |-> "error"])
  /\ alerted' = TRUE
  /\ isMerging' = FALSE
  /\ mergeProgress' = <<>>
  /\ mpc' = "idle"
  /\ cpc' = "none"
  /\ UNCHANGED << scenes, generatedVideos, genOrder, mergedVideoUrl, videoUrlsToMerge, mi,
                  played, drawn, canvas, recorder >>

\* Lines 100-103: a decode error resolves the clip's promise.
onerror == mpc = "clip" /\ cpc \in {"loading", "loaded", "playing"} /\ NextClip("error")

\* Lines 112-115: play() rejects.
playRejected == mpc = "clip" /\ cpc \in {"loading", "loaded"} /\ NextClip("catch")

\* The end of the handler as it would be without the finally block.
onstop_NoFinally ==
  /\ mpc = "stopping"
  /\ mergedVideoUrl' = MergedUrl(drawn)
  /\ mpc' = "idle"
  /\ UNCHANGED << scenes, generatedVideos, genOrder, videoUrlsToMerge, mi, cpc, played,
                  drawn, canvas, recorder, alerted, finished, isMerging, mergeProgress >>

\* Lines 121-135: the recorder's stop event; the blob gets its object URL.
onstop ==
  /\ mpc = "stopping"
  /\ mergedVideoUrl' = MergedUrl(drawn)
  /\ isMerging' = FALSE
  /\ mergeProgress' = <<>>
  /\ mpc' = "idle"
  /\ UNCHANGED << scenes, generatedVideos, genOrder, videoUrlsToMerge, mi, cpc, played,
                  drawn, canvas, recorder, alerted, finished >>

NextM ==
  \/ VideoGenerated /\ UNCHANGED << aVars, gVars, sVars, eVars >>
  \/ MergeClicked /\ UNCHANGED << aVars, gVars, sVars, eVars >>
  \/ onloadedmetadata /\ UNCHANGED << aVars, gVars, sVars, eVars >>
  \/ playResolved /\ UNCHANGED << aVars, gVars, sVars, eVars >>
  \/ onended /\ UNCHANGED << aVars, gVars, sVars, eVars >>
  \/ onerror /\ UNCHANGED << aVars, gVars, sVars, eVars >>
  \/ playRejected /\ UNCHANGED << aVars, gVars, sVars, eVars >>
  \/ onstop /\ UNCHANGED << aVars, gVars, sVars, eVars >>

\* Every order of the scene ids 1..NumScenes.
ScenePermutations ==
  { p \in [SceneIds -> SceneIds] : \A i, j \in SceneIds : p[i] = p[j] => i = j }

\* The view with a storyboard whose scenes come in any order.
InitView ==
  /\ scenes \in { [i \in SceneIds |-> [id |-> p[i]]] : p \in ScenePermutations }
  /\ generatedVideos = [s \in SceneIds |-> NoClip]
  /\ aistudio = FALSE
  /\ isGenerating = [s \in SceneIds |-> FALSE]
  /\ generatedVideoUrl = [s \in SceneIds |-> NoClip]
  /\ error = [s \in SceneIds |-> <<>>]
  /\ calls = <<>>

\* ----------------------------------------------------- editing the scenes
\* The fields of a StoryboardScene a card lets the user edit (lines 426-519).
EditableFields ==
  {"visualDescription", "cameraMovement", "voiceoverScript", "aiImagePrompt", "aiVideoPrompt"}

\* What the user types into a field.
Typed == {<<"typed", 1>>, <<"typed", 2>>}

\* Lines 312-313: a card starts out of edit mode, its draft the scene.
InitE ==
  /\ title = <<"title">>
  /\ summary = <<"summary">>
  /\ isEditing = [s \in CardIds |-> FALSE]
  /\ editedData = [s \in CardIds |-> SceneWithId(scenes, s)]
  /\ nChange = 0

\* The update as it would be replacing the scene at the position of the id.
handleSceneUpdate_ByPosition(updatedScene) ==
  /\ scenes' = [i \in 1..Len(scenes) |->
                  IF i = updatedScene.id THEN updatedScene ELSE scenes[i]]
  /\ UNCHANGED << title, summary >>

\* Lines 39-44.
handleSceneUpdate(updatedScene) ==
  /\ scenes' = [i \in 1..Len(scenes) |->
                  IF scenes[i].id = updatedScene.id THEN updatedScene ELSE scenes[i]]
  /\ UNCHANGED << title, summary >>

\* Lines 315-317: a card whose scene was replaced takes it as its draft.
SyncDrafts ==
  editedData' =
    [s \in CardIds |->
       IF \E i \in 1..Len(scenes') : scenes'[i].id = s /\ scenes'[i] # scenes[i]
       THEN scenes'[CHOOSE i \in 1..Len(scenes') : scenes'[i].id = s /\ scenes'[i] # scenes[i]]
       ELSE editedData[s]]

\* Line 403: the Edit button.
startEdit(s) ==
  /\ ~isEditing[s]
  /\ isEditing' = [isEditing EXCEPT ![s] = TRUE]
  /\ UNCHANGED << scenes, title, summary, editedData, nChange >>

\* Lines 426-519: onChange of a field's input, shown in edit mode.
onChange(s, field, value) ==
  /\ isEditing[s]
  /\ nChange < MaxEdits
  /\ nChange' = nChange + 1
  /\ editedData' = [editedData EXCEPT ![s] = [f \in DOMAIN editedData[s] |->
                                               IF f = field THEN value ELSE editedData[s][f]]]
  /\ UNCHANGED << scenes, title, summary, isEditing >>

\* Lines 378-381.
handleSaveEdit(s) ==
  /\ isEditing[s]
  /\ handleSceneUpdate(editedData[s])
  /\ isEditing' = [isEditing EXCEPT ![s] = FALSE]
  /\ SyncDrafts
  /\ UNCHANGED nChange

\* Cancel as it would be leaving the draft as typed.
handleCancelEdit_KeepDraft(s) ==
  /\ isEditing[s]
  /\ isEditing' = [isEditing EXCEPT ![s] = FALSE]
  /\ UNCHANGED << scenes, title, summary, nChange, editedData >>

\* Lines 383-386.
handleCancelEdit(s) ==
  /\ isEditing[s]
  /\ editedData' = [editedData EXCEPT ![s] = SceneWithId(scenes, s)]
  /\ isEditing' = [isEditing EXCEPT ![s] = FALSE]
  /\ UNCHANGED << scenes, title, summary, nChange >>

NextE ==
  \/ \E s \in CardIds : startEdit(s) /\ UNCHANGED << aVars, gVars, generatedVideos, mVars, sVars >>
  \/ \E s \in CardIds, field \in EditableFields, value \in Typed :
       onChange(s, field, value) /\ UNCHANGED << aVars, gVars, generatedVideos, mVars, sVars >>
  \/ \E s \in CardIds : handleSaveEdit(s) /\ UNCHANGED << aVars, gVars, generatedVideos, mVars, sVars >>
  \/ \E s \in CardIds : handleCancelEdit(s) /\ UNCHANGED << aVars, gVars, generatedVideos, mVars, sVars >>

\* ------------------------------------------------- a new analysis result
\* The scene with id s as a re-analysis returns it.
SceneAgain(s) ==
  [f \in DOMAIN Scene(s) |-> IF f = "id" THEN s ELSE Append(Scene(s)[f], "again")]

\* The results a re-analysis hands to the view: new title, summary and
\* scenes, with all the scene ids of the storyboard shown or the first only.
NewResults ==
  { [title |-> <<"title", "again">>,
     summary |-> <<"summary", "again">>,
     scenes |-> [i \in 1..n |-> SceneAgain(i)]] : n \in {1, NumCards} }

SceneIdsOf(r) == {r.scenes[i].id : i \in 1..Len(r.scenes)}

\* The effect as it would be keeping the scenes the working copy already
\* has and adding only the new ones.
resultChanged_KeepScenes(r) ==
  /\ title' = r.title
  /\ summary' = r.summary
  /\ scenes' = [i \in 1..Len(r.scenes) |->
                  IF r.scenes[i].id \in CardIds
                  THEN SceneWithId(scenes, r.scenes[i].id) ELSE r.scenes[i]]
  /\ isEditing' = [s \in SceneIdsOf(r) |-> IF s \in CardIds THEN isEditing[s] ELSE FALSE]
  /\ editedData' = [s \in SceneIdsOf(r) |-> SceneWithId(scenes', s)]
  /\ UNCHANGED nChange

\* Lines 21-24 and 315-317: the result prop changes while the view is
\* mounted.  The working copy becomes the new result; a card whose id is in
\* the new result stays (line 185), keeps its mode and takes the new scene as
\* its draft; the other cards are unmounted, and new ones start out of edit
\* mode.
resultChanged(r) ==
  /\ title' = r.title
  /\ summary' = r.summary
  /\ scenes' = r.scenes
  /\ isEditing' = [s \in SceneIdsOf(r) |-> IF s \in CardIds THEN isEditing[s] ELSE FALSE]
  /\ editedData' = [s \in SceneIdsOf(r) |-> SceneWithId(r.scenes, s)]
  /\ UNCHANGED nChange

\* Line 13 and lines 312-313: the view is mounted anew with a result (the
\* App shows it in state SUCCESS only, after resetApp took the old view away).
mountView(r) ==
  /\ title' = r.title
  /\ summary' = r.summary
  /\ scenes' = r.scenes
  /\ isEditing' = [s \in SceneIdsOf(r) |-> FALSE]
  /\ editedData' = [s \in SceneIdsOf(r) |-> SceneWithId(r.scenes, s)]
  /\ UNCHANGED nChange

NextV ==
  \/ NextE
  \/ \E r \in NewResults :
       resultChanged(r) /\ UNCHANGED << aVars, gVars, generatedVideos, mVars, sVars >>
  \/ \E r \in NewResults :
       mountView(r) /\ UNCHANGED << aVars, gVars, generatedVideos, mVars, sVars >>

\* Every order of n scenes.
Orders(n) == { p \in [1..n -> 1..n] : \A i, j \in 1..n : p[i] = p[j] => i = j }

\* The view with a storyboard of full scenes in any order.
InitStoryboard ==
  /\ scenes \in { [i \in 1..NumCards |-> Scene(p[i])] : p \in Orders(NumCards) }
  /\ generatedVideos = [s \in SceneIds |-> NoClip]
  /\ aistudio = FALSE
  /\ isGenerating = [s \in SceneIds |-> FALSE]
  /\ generatedVideoUrl = [s \in SceneIds |-> NoClip]
  /\ error = [s \in SceneIds |-> <<>>]
  /\ calls = <<>>

\* ----------------------------------------------------------------------- App
NoVideo == [file |-> NoFile]

\* App, lines 86-90: the text shown in state ANALYZING is the one for a large
\* upload.
LargeUploadText(video) == video.file.size > 10 * 1024 * 1024

InitS ==
  /\ appState = "IDLE"
  /\ currentVideo = NoVideo
  /\ analysisResult = <<>>
  /\ errorMsg = <<>>
  /\ abandoned = 0
  /\ reading = {}

\* The call of analyzeVideoScript the model follows step by step is pending.
Pending == apc \notin {"idle", "resolved", "rejected"}

\* handleFileSelect, lines 14-21, up to its await.  A call still pending goes
\* on beside the new one.
handleFileSelect(video) ==
  /\ currentVideo' = video
  /\ errorMsg' = <<>>
  /\ appState' = "ANALYZING"
  /\ UNCHANGED analysisResult
  /\ IF Pending
     THEN abandoned < MaxAbandoned /\ abandoned' = abandoned + 1
     ELSE UNCHANGED abandoned
  /\ StartAnalysis(video.file)

\* The files offered to the uploader, one of them above the maximum size.
ShellFiles ==
  {f \in Files : f.type = "video/webm"}
    \cup {[type |-> "video/webm", size |-> MAX_SIZE_BYTES + 1]}

\* VideoUploader.handleFileChange, lines 17-52; the input is rendered in state
\* IDLE only (App, lines 73-75).  A file above the maximum is refused; a file
\* below the inline threshold is read first and handed on when the read is
\* done; any other file is handed on at once.
handleFileChange(f) ==
  /\ appState = "IDLE"
  /\ IF f.size > MAX_SIZE_BYTES
     THEN UNCHANGED << aVars, sVars >>
     ELSE IF f.size < 10 * 1024 * 1024
     THEN /\ f \notin reading
          /\ Cardinality(reading) < MaxReads
          /\ reading' = reading \cup {f}
          /\ UNCHANGED << aVars, appState, currentVideo, analysisResult, errorMsg, abandoned >>
     ELSE handleFileSelect([file |-> f]) /\ UNCHANGED reading

\* VideoUploader, lines 32-42: reader.onload.
readerLoaded(f) ==
  /\ f \in reading
  /\ reading' = reading \ {f}
  /\ handleFileSelect([file |-> f])

\* The read fails: the reader has no onerror handler.
readerFailed(f) ==
  /\ f \in reading
  /\ reading' = reading \ {f}
  /\ UNCHANGED << aVars, appState, currentVideo, analysisResult, errorMsg, abandoned >>

\* Lines 31-36.  A pending analysis is not cancelled, nor is a pending read.
resetApp ==
  /\ appState' = "IDLE"
  /\ currentVideo' = NoVideo
  /\ analysisResult' = <<>>
  /\ errorMsg' = <<>>
  /\ UNCHANGED << abandoned, reading, aVars >>

\* Lines 21-23: the awaited call resolved.
AnalysisResolved(res) ==
  /\ analysisResult' = <<res>>
  /\ appState' = "SUCCESS"
  /\ UNCHANGED << currentVideo, errorMsg >>

\* The catch as it would be showing the error's message as it is.
AnalysisRejected_RawMessage(err) ==
  /\ errorMsg' = MessageOf(err)
  /\ appState' = "ERROR"
  /\ UNCHANGED << currentVideo, analysisResult >>

\* Lines 24-28: the awaited call rejected.
AnalysisRejected(err) ==
  /\ errorMsg' = IF MessageOf(err) = <<>>
                 THEN <<"An unexpected error occurred during analysis.">>
                 ELSE MessageOf(err)
  /\ appState' = "ERROR"
  /\ UNCHANGED << currentVideo, analysisResult >>

\* The handler resumes in the step in which the call it awaits settles.
Resume ==
  IF apc # "resolved" /\ apc' = "resolved" THEN AnalysisResolved(result'[1])
  ELSE IF apc # "rejected" /\ apc' = "rejected" THEN AnalysisRejected(rejected')
  ELSE UNCHANGED << appState, currentVideo, analysisResult, errorMsg >>

\* What a call that is no longer followed step by step rejects with: an
\* error with a message, or the event of a failed read.
Rejections == {ProcessingFailed, Err("ProgressEvent", <<>>)}

\* Such a call settles and its handler resumes.
abandonedSettles ==
  /\ abandoned > 0
  /\ abandoned' = abandoned - 1
  /\ \/ AnalysisResolved(JSONParse("{title,summary,scenes}"))
     \/ \E err \in Rejections : AnalysisRejected(err)
  /\ UNCHANGED << aVars, reading >>

\* The responses the service gives in the runs of the shell.
ShellStartResponses ==
  {r \in StartResponses :
     /\ r.statusText # ""
     /\ r.text \in {<<>>, <<"Rpc failed">>}
     /\ r.uploadUrl \in {NoUrl, <<"https://", "upload">>}}

ShellUploadResponses ==
  {r \in UploadResponses :
     /\ r.statusText # ""
     /\ r.text \in {<<>>, <<"error", "code: 6">>}
     /\ r.json \in {"none", "nouri", "file"}
     /\ r.uri \in {<<>>, <<"files/", "abc">>}}

\* The steps of the call in progress.
AnalysisStep ==
  \/ fileToBase64Loaded
  \/ fileToBase64Error
  \/ InitiateRejected
  \/ \E r \in ShellStartResponses : InitiateResponse(r)
  \/ TransferRejected
  \/ \E r \in ShellUploadResponses : TransferResponse(r)
  \/ RemoteProcess
  \/ StatusFails
  \/ StatusRead
  \/ PollTimer
  \/ generateContentDone

NextS ==
  \/ \E f \in ShellFiles : handleFileChange(f) /\ UNCHANGED << gVars, vVars, mVars, eVars >>
  \/ \E f \in ShellFiles : readerLoaded(f) /\ UNCHANGED << gVars, vVars, mVars, eVars >>
  \/ \E f \in ShellFiles : readerFailed(f) /\ UNCHANGED << gVars, vVars, mVars, eVars >>
  \/ resetApp /\ UNCHANGED << gVars, vVars, mVars, eVars >>
  \/ abandonedSettles /\ UNCHANGED << gVars, vVars, mVars, eVars >>
  \/ AnalysisStep /\ Resume /\ UNCHANGED << abandoned, reading, gVars, vVars, mVars, eVars >>

Init == InitA /\ InitG /\ InitM /\ InitS /\ InitE

\* The analysis service alone.
SpecAnalyze == Init /\ [][NextA]_vars

\* A pending fetch settles and a pending timer fires.
LiveAnalyze ==
  /\ Init
  /\ [][NextA]_vars
  /\ WF_vars((StatusRead \/ StatusFails) /\ UNCHANGED << gVars, vVars, mVars, sVars, eVars >>)
  /\ WF_vars(PollTimer /\ UNCHANGED << gVars, vVars, mVars, sVars, eVars >>)

\* The scene cards and the generation client.
SpecGenerate == Init /\ [][NextG]_vars

\* The analysis and the generation side by side: a session is followed
\* either through the App shell with its analysis, or through the generations
\* of the storyboard shown.
NextRuns ==
  \/ calls = <<>> /\ NextS
  \/ apc = "idle" /\ appState = "IDLE" /\ reading = {} /\ NextG

SpecRuns == Init /\ [][NextRuns]_vars

\* The merge, with the scene cards reporting clips in any order.
InitMerge == InitA /\ InitView /\ InitM /\ InitS /\ InitE

SpecMerge == InitMerge /\ [][NextM]_vars

\* The merge with the media events it waits for arriving in the end: a clip
\* that is loading loads or fails, one that is loaded starts playing or its
\* play() rejects, one that is playing ends or fails, and the stopped
\* recorder fires its stop event.
LiveMerge ==
  /\ InitMerge
  /\ [][NextM]_vars
  /\ WF_vars(onloadedmetadata /\ UNCHANGED << aVars, gVars, sVars, eVars >>)
  /\ WF_vars((playResolved \/ playRejected) /\ UNCHANGED << aVars, gVars, sVars, eVars >>)
  /\ WF_vars((onended \/ onerror) /\ UNCHANGED << aVars, gVars, sVars, eVars >>)
  /\ WF_vars(onstop /\ UNCHANGED << aVars, gVars, sVars, eVars >>)

\* The scene cards in edit mode.
InitEdit == InitA /\ InitStoryboard /\ InitM /\ InitS /\ InitE

SpecEdit == InitEdit /\ [][NextE]_vars

\* The view with edits and re-analyses.
SpecView == InitEdit /\ [][NextV]_vars

\* The prompt edited and a clip generated side by side: the cards' edit mode
\* with the video prompt as the field typed into, and the first generation
\* of the session with all its steps.
NextP ==
  \/ calls = <<>> /\ GenerateClicked /\ UNCHANGED << aVars, mVars, sVars, eVars >>
  \/ \E c \in CallIds : hasSelectedApiKeyDone(c) /\ UNCHANGED << aVars, mVars, sVars, eVars >>
  \/ \E c \in CallIds : openSelectKeyDone(c) /\ UNCHANGED << aVars, mVars, sVars, eVars >>
  \/ \E c \in CallIds : generateVideosDone(c) /\ UNCHANGED << aVars, mVars, sVars, eVars >>
  \/ \E c \in CallIds : sleepDone(c) /\ UNCHANGED << aVars, mVars, sVars, eVars >>
  \/ \E c \in CallIds : getVideosOperationDone(c) /\ UNCHANGED << aVars, mVars, sVars, eVars >>
  \/ \E c \in CallIds : downloadDone(c) /\ UNCHANGED << aVars, mVars, sVars, eVars >>
  \/ \E s \in CardIds : startEdit(s) /\ UNCHANGED << aVars, gVars, generatedVideos, mVars, sVars >>
  \/ \E s \in CardIds, value \in Typed :
       onChange(s, "aiVideoPrompt", value)
         /\ UNCHANGED << aVars, gVars, generatedVideos, mVars, sVars >>
  \/ \E s \in CardIds : handleSaveEdit(s) /\ UNCHANGED << aVars, gVars, generatedVideos, mVars, sVars >>
  \/ \E s \in CardIds : handleCancelEdit(s) /\ UNCHANGED << aVars, gVars, generatedVideos, mVars, sVars >>

SpecPrompt == Init /\ [][NextP]_vars

\* A result whose scenes are the last two scene ids, in descending order.
LaterScenes ==
  [title |-> <<"title", "again">>,
   summary |-> <<"summary", "again">>,
   scenes |-> <<SceneAgain(NumScenes), SceneAgain(NumScenes - 1)>>]

\* The merge with re-analyses: the result prop may change while clips exist,
\* and the clip map keeps the entries of scenes no longer in the working copy.
NextR ==
  \/ NextM
  \/ \E r \in NewResults \cup {LaterScenes} :
       resultChanged(r) /\ UNCHANGED << aVars, gVars, generatedVideos, mVars, sVars >>

SpecRemerge == InitEdit /\ [][NextR]_vars

\* The App shell driving the analysis service.
SpecApp == Init /\ [][NextS]_vars

\* ------------------------------------------------------------------ claims
Large(f) == f # NoFile /\ f.size >= 10 * 1024 * 1024

Small(f) == f # NoFile /\ f.size < 10 * 1024 * 1024

InPollLoop == apc \in {"Polling", "Waiting"}

\* The last Len(body) tokens of msg are body.
EndsWith(msg, body) ==
  /\ Len(msg) >= Len(body)
  /\ SubSeq(msg, Len(msg) - Len(body) + 1, Len(msg)) = body

\* C1: a file below the 10 MiB threshold never causes an Initiate, Transfer or
\* status request and is passed inline; a file at or above it takes the
\* resumable path and is passed by reference: one strategy, chosen by size.
C1_SizeBranch ==
  /\ Small(file) =>
       /\ nInitiate = 0 /\ nTransfer = 0 /\ nPoll = 0
       /\ apc \notin {"Initiating", "Transferring", "Polling", "Waiting"}
       /\ parts \in {"none", "inlineData"}
       /\ (nAnalyze > 0 => parts = "inlineData")
  /\ Large(file) =>
       /\ nInitiate = 1
       /\ apc # "fileToBase64"
       /\ parts \in {"none", "fileData"}
       /\ (nAnalyze > 0 => parts = "fileData")

C1_Witness ==
  /\ file.size = 10 * 1024 * 1024 - 1
  /\ apc = "resolved"
  /\ parts = "inlineData"
  /\ nInitiate = 0

\* C2: for a file at or above the threshold, Initiate is issued exactly once
\* and before Transfer, Transfer at most once, after the start response and
\* before the first status Poll.
C2_InitiateTransferPoll ==
  Large(file) =>
    /\ nInitiate = 1
    /\ nTransfer <= 1
    /\ (nTransfer = 1 => startResponse.ok)
    /\ (apc = "Initiating" => nTransfer = 0 /\ nPoll = 0)
    /\ (apc = "Transferring" => nTransfer = 1 /\ nPoll = 0)
    /\ (nPoll > 0 => nTransfer = 1 /\ uploadResponse.ok)
    /\ (nAnalyze > 0 => nTransfer = 1 /\ nPoll >= 1)

C2_Witness ==
  /\ Large(file)
  /\ apc = "Polling"
  /\ nInitiate = 1 /\ nTransfer = 1 /\ nPoll = 1

PhaseSteps ==
  { <<"Idle", "Initiating">>,
    <<"Initiating", "Transferring">>, <<"Initiating", "Failed">>,
    <<"Transferring", "Polling">>, <<"Transferring", "Failed">>,
    <<"Polling", "Active">>, <<"Polling", "Failed">> }

\* C3: the transfer moves Idle -> Initiating -> Transferring -> Polling ->
\* Active or Failed, skipping and revisiting no phase; each phase has issued
\* its request; after Active or Failed the call issues no Initiate, Transfer
\* or Poll request (only a new call leaves the terminal phase).
C3_TransferStateMachine ==
  /\ [][ IF analyzeVideoScript
         THEN Phase' \in {"Idle", "Initiating"}
         ELSE Phase' = Phase \/ <<Phase, Phase'>> \in PhaseSteps ]_vars
  /\ [][ (Phase \in {"Active", "Failed"} /\ ~analyzeVideoScript)
           => /\ Phase' = Phase
              /\ UNCHANGED << nInitiate, nTransfer, nPoll >> ]_vars
  /\ [](Phase = "Initiating" => nInitiate = 1 /\ nTransfer = 0 /\ nPoll = 0)
  /\ [](Phase = "Transferring" => nInitiate = 1 /\ nTransfer = 1 /\ nPoll = 0)
  /\ [](Phase = "Polling" => nInitiate = 1 /\ nTransfer = 1 /\ nPoll >= 1)
  /\ [](Phase = "Active" => nInitiate = 1 /\ nTransfer = 1 /\ nPoll >= 1)

\* Failed has been reached from each of the three phases, and Active too.
C3_Witness ==
  /\ failedFrom = {"Initiating", "Transferring", "Polling"}
  /\ Phase = "Active"
  /\ apc = "resolved"

\* C4: the request that references the remote file is sent only after a status
\* Poll reported ACTIVE; a Poll reporting FAILED ends the call in error with
\* no analysis request; any other reported state leads to the 5 s wait and
\* then to another Poll.
C4_PollOutcome ==
  /\ [](parts = "fileData" => lastState = "ACTIVE" /\ nPoll >= 1)
  /\ [](lastState = "FAILED" =>
          apc = "rejected" /\ thrown = ProcessingFailed /\ nAnalyze = 0)
  /\ [](lastState \notin {"none", "ACTIVE", "FAILED"} => apc = "Waiting" /\ nAnalyze = 0)
  /\ [][ apc = "Waiting" => apc' \in {"Waiting", "Polling"} ]_vars
  /\ [](apc = "Waiting" => ENABLED PollTimer)

C4_Witness ==
  /\ parts = "fileData"
  /\ nPoll >= 2
  /\ lastState = "ACTIVE"

StatusFailures ==
  {FetchRejected, Err("SyntaxError", <<"Unexpected token">>)}
    \cup {StatusError(r) : r \in HttpErrors}

\* C5: once the remote file is ACTIVE or FAILED the poll loop ends; the loop
\* is left only on a reported ACTIVE or FAILED or on a failed status fetch,
\* never on a count of attempts or a timeout, and the timer is always re-armed.
C5_UnboundedPolling ==
  /\ (InPollLoop /\ remoteFile \in {"ACTIVE", "FAILED"}) ~> ~InPollLoop
  /\ [][ (InPollLoop /\ ~InPollLoop')
           => \/ lastState' \in {"ACTIVE", "FAILED"}
              \/ (apc' = "rejected" /\ thrown' \in StatusFailures) ]_vars
  /\ [](apc = "Waiting" => ENABLED PollTimer)

\* Still polling with the attempt counter at the model's bound.
C5_Witness ==
  /\ apc = "Waiting"
  /\ nPoll = MaxPolls
  /\ remoteFile = "PROCESSING"

\* C6: a start response that is not ok ends the upload with the initiation
\* error, whose message ends with the server's error body; no Transfer, Poll
\* or analysis request is issued.
C6_InitiationError ==
  (startResponse.status # "none" /\ ~startResponse.ok) =>
    /\ apc = "rejected"
    /\ StartsWith(thrown.message, "Failed to initiate upload:")
    /\ Len(thrown.message) > Len(startResponse.text)
    /\ EndsWith(thrown.message, startResponse.text)
    /\ nTransfer = 0 /\ nPoll = 0 /\ nAnalyze = 0

C6_Witness ==
  /\ startResponse.status = "503"
  /\ startResponse.text = <<"quota exceeded">>
  /\ apc = "rejected"
  /\ rejected = thrown

\* C7: a transfer response that is not ok ends the upload with the transfer
\* error, whose message ends with the server's error body; no Poll and no
\* analysis request is issued.
C7_TransferError ==
  (uploadResponse.status # "none" /\ ~uploadResponse.ok) =>
    /\ apc = "rejected"
    /\ StartsWith(thrown.message, "Failed to upload file bytes:")
    /\ Len(thrown.message) > Len(uploadResponse.text)
    /\ EndsWith(thrown.message, uploadResponse.text)
    /\ nPoll = 0 /\ nAnalyze = 0

C7_Witness ==
  /\ uploadResponse.status = "503"
  /\ uploadResponse.text = <<"error", "code: 6">>
  /\ apc = "rejected"
  /\ nTransfer = 1

\* C8: for an operation that turns done after N polls (N >= 0), the client
\* never fetches the status more than N times, has fetched it exactly N times
\* when it sees the operation done, downloads at most once and only after
\* that, and a call returns only after exactly N status fetches followed by
\* exactly one download.
C8_PollsThenDownload ==
  /\ [](\A c \in CallIds :
          LET k == calls[c]
          IN /\ k.nStatus <= k.flip
             /\ k.nDownload <= 1
             /\ (k.done => k.nStatus = k.flip)
             /\ (k.nDownload = 1 /\ k.pc # "done" /\ k.pc # "failed" => k.done)
             /\ (k.done /\ k.outcome.kind = "video" => k.nDownload = 1)
             /\ (k.pc = "download" => k.done /\ k.nStatus = k.flip /\ k.nDownload = 1)
             /\ (k.pc = "done" => k.nDownload = 1))
  /\ [][ \A c \in CallIds :
           (calls[c].pc # "done" /\ calls'[c].pc = "done") =>
             /\ calls[c].pc = "download"
             /\ calls[c].done
             /\ calls[c].nStatus = calls[c].flip
             /\ calls[c].nDownload = 1 ]_vars
  /\ [][ \A c \in CallIds :
           /\ calls'[c].nStatus > calls[c].nStatus => ~calls[c].done /\ calls[c].nDownload = 0
           /\ calls'[c].nDownload > calls[c].nDownload =>
                calls'[c].done /\ calls'[c].nStatus = calls'[c].flip ]_vars

\* The operation has turned done at the second poll and its video is being
\* downloaded.
C8_Witness ==
  \E c \in CallIds :
    /\ calls[c].pc = "download"
    /\ calls[c].flip = 2
    /\ calls[c].nStatus = 2
    /\ calls[c].nDownload = 1

\* C9: a done operation with an embedded error makes the call fail with
\* "Veo generation failed: <remote message>", without a download; the failing
\* step leaves generatedVideos and the card's clip unchanged and shows the
\* message; a call that returns has downloaded once and returns the object
\* URL, which is recorded for its scene.
C9_EmbeddedError ==
  /\ [](\A c \in CallIds :
          calls[c].outcome.kind = "error" =>
            /\ calls[c].pc = "failed"
            /\ calls[c].err = <<"Veo generation failed:">> \o calls[c].outcome.message
            /\ calls[c].nDownload = 0
            /\ calls[c].url = NoClip)
  /\ [][ \A c \in CallIds :
           (calls[c].pc # "failed" /\ calls'[c].pc = "failed") =>
             /\ generatedVideos' = generatedVideos
             /\ generatedVideoUrl' = generatedVideoUrl
             /\ ~isGenerating'[calls[c].scene]
             /\ calls'[c].err # <<>> => error'[calls[c].scene] = calls'[c].err ]_vars
  /\ [](\A c \in CallIds :
          calls[c].pc = "done" =>
            /\ calls[c].outcome.kind = "video"
            /\ calls[c].nDownload = 1
            /\ calls[c].url = <<calls[c].scene, c>>)
  /\ [][ \A c \in CallIds :
           (calls[c].pc # "done" /\ calls'[c].pc = "done") =>
             generatedVideos'[calls[c].scene] = calls'[c].url ]_vars

\* A regeneration fails with an embedded error while the scene's earlier clip
\* is still recorded.
C9_Witness ==
  \E c \in CallIds :
    /\ calls[c].pc = "failed"
    /\ calls[c].outcome.kind = "error"
    /\ generatedVideos[calls[c].scene] # NoClip
    /\ error[calls[c].scene] = <<"Veo generation failed:", "quota exceeded">>

\* The scene a clip was generated for.
SceneOf(url) == url[1]

\* C10: the clips of a merge are played in ascending scene-id order, whatever
\* the order of the scenes in the list and of the clips' generation.
C10_MergeOrder ==
  /\ \A i, j \in 1..Len(played) : i < j => SceneOf(played[i]) < SceneOf(played[j])
  /\ \A i, j \in 1..Len(videoUrlsToMerge) :
       i < j => SceneOf(videoUrlsToMerge[i]) < SceneOf(videoUrlsToMerge[j])
  /\ \A i \in 1..Len(played) : played[i] = videoUrlsToMerge[i]

\* Clips generated for scenes 3, 1, 2 in that order are merged as 1, 2, 3.
C10_Witness ==
  /\ genOrder = <<3, 1, 2>>
  /\ mpc = "idle"
  /\ mergedVideoUrl # NoMerged
  /\ played = << <<1, 2>>, <<2, 3>>, <<3, 1>> >>
  /\ drawn = played

\* The scenes that have a clip.
WithClip == {s \in SceneIds : generatedVideos[s] # NoClip}

Ascending(urls) ==
  \A i, j \in 1..Len(urls) : i < j => SceneOf(urls[i]) < SceneOf(urls[j])

MergeStarts == mpc = "idle" /\ mpc' = "clip"

MergeCompletes == mpc = "stopping" /\ mpc' = "idle"

\* C11: a merge started with clips for the scenes S takes exactly the clips of
\* S, in ascending scene order, the scenes without a clip being skipped; it
\* completes with every one of them processed, an output and no alert.
C11_MergeSkipsMissing ==
  /\ [][MergeStarts =>
          /\ Len(videoUrlsToMerge') = Cardinality(WithClip)
          /\ \A i \in 1..Len(videoUrlsToMerge') : videoUrlsToMerge'[i] # NoClip
          /\ {videoUrlsToMerge'[i] : i \in 1..Len(videoUrlsToMerge')}
               = {generatedVideos[s] : s \in WithClip}
          /\ Ascending(videoUrlsToMerge')]_vars
  /\ [][MergeCompletes =>
          /\ played = videoUrlsToMerge
          /\ Len(finished) = Len(videoUrlsToMerge)
          /\ ~alerted'
          /\ mergedVideoUrl' # NoMerged]_vars

\* Of three scenes, 1 and 3 have a clip: the merge made two segments.
C11_Witness ==
  /\ WithClip = {1, 3}
  /\ mpc = "idle"
  /\ mergedVideoUrl # NoMerged
  /\ ~alerted
  /\ Len(played) = 2
  /\ SceneOf(played[1]) = 1
  /\ SceneOf(played[2]) = 3
  /\ Len(finished) = 2

\* C12: while the clips are played, the clip loaded is the one after those
\* that have finished, and frames are drawn of that clip only; the recorder
\* records from before the first clip is loaded, is stopped only when every
\* clip has finished, and the output URL is set only once it has stopped.
C12_OneClipAtATime ==
  /\ [](mpc = "clip" =>
          /\ recorder = "recording"
          /\ Len(played) = Len(finished) + 1
          /\ \A i \in 1..Len(finished) : finished[i].clip = played[i]
          /\ mi = Len(played))
  /\ [][played' # played => recorder' = "recording" /\ Len(finished') = Len(played') - 1]_vars
  /\ [][drawn' # drawn /\ drawn' # <<>> =>
          /\ drawn' = Append(drawn, played[Len(played)])
          /\ Len(finished') = Len(played) - 1]_vars
  /\ [][recorder # recorder' /\ recorder' = "inactive" =>
          /\ Len(finished') = Len(videoUrlsToMerge)
          /\ \A i \in 1..Len(videoUrlsToMerge) : finished'[i].clip = videoUrlsToMerge[i]]_vars
  /\ [][mergedVideoUrl' # mergedVideoUrl /\ mergedVideoUrl' # NoMerged =>
          recorder = "inactive" /\ mpc = "stopping"]_vars

\* The second of three clips is playing, the first has ended.
C12_Witness ==
  /\ mpc = "clip"
  /\ Len(videoUrlsToMerge) = 3
  /\ mi = 2
  /\ cpc = "playing"
  /\ Len(finished) = 1
  /\ finished[1].how = "ended"
  /\ drawn = played

ClipErrors ==
  /\ Len(finished') = Len(finished) + 1
  /\ finished'[Len(finished')].how = "error"

\* C13: a playback error of a clip is the end of that clip: the next clip is
\* loaded, or after the last clip the recorder stopped; the merge goes on
\* without an alert, and it completes with an output URL.
C13_ClipErrorSkips ==
  /\ [][ClipErrors =>
          /\ isMerging'
          /\ ~alerted'
          /\ IF mi < Len(videoUrlsToMerge)
             THEN mpc' = "clip" /\ mi' = mi + 1 /\ played' = Append(played, videoUrlsToMerge[mi + 1])
             ELSE mpc' = "stopping" /\ recorder' = "inactive"]_vars
  /\ [][MergeCompletes => mergedVideoUrl' # NoMerged /\ ~alerted' /\ ~isMerging']_vars

\* The first of two clips raised an error, the second was played to its end,
\* and the merge has its output.
C13_Witness ==
  /\ mpc = "idle"
  /\ Len(finished) = 2
  /\ finished[1].how = "error"
  /\ finished[2].how = "ended"
  /\ mergedVideoUrl # NoMerged
  /\ ~alerted
  /\ ~isMerging

\* C14: a merge in which an exception is thrown (no 2d context, the recorder
\* not constructed) ends with the alert raised, no merged output, also when an
\* earlier merge had left one, and the view no longer merging; and as long as
\* the alert stands there is no output.
C14_MergeAborts ==
  /\ [][(\E env \in {"no2d", "norecorder"} : handleMergeVideos(env)) =>
          /\ alerted'
          /\ mergedVideoUrl' = NoMerged
          /\ ~isMerging'
          /\ mergeProgress' = <<>>
          /\ mpc' = "idle"]_vars
  /\ [](alerted => mergedVideoUrl = NoMerged /\ ~isMerging /\ mpc = "idle")

\* An earlier merge had recorded and stopped; a later one raised the alert.
C14_Witness ==
  /\ alerted
  /\ recorder = "inactive"
  /\ finished # <<>>
  /\ mergedVideoUrl = NoMerged
  /\ ~isMerging

\* C15: an analysis that resolves returns a document with its title, its
\* summary and its scenes.
C15_SchemaConformance ==
  apc = "resolved" =>
    /\ Len(result) = 1
    /\ result[1].title
    /\ result[1].summary
    /\ result[1].scenes

Hinted(message) ==
  \E i \in 1..Len(message) : message[i] \in {"Rpc failed", "xhr error", "code: 6"}

\* C18: a call that rejects, rejects with the network error and its hint when
\* the message of the error thrown inside contains "Rpc failed", "xhr error" or
\* "code: 6", and with the very error thrown otherwise.
C18_NetworkErrorHeuristic ==
  apc = "rejected" =>
    /\ thrown # NoError
    /\ IF thrown.type # "ProgressEvent" /\ Hinted(thrown.message)
       THEN /\ rejected.type = "Error"
            /\ rejected.message = <<"Network error during analysis. If the file is large, please ensure your internet connection is stable or try a smaller clip.">>
       ELSE rejected = thrown

\* An initiation error whose server body holds "code: 6" was replaced.
C18_Witness ==
  /\ apc = "rejected"
  /\ StartsWith(thrown.message, "Failed to initiate upload:")
  /\ Includes(thrown.message, "code: 6")
  /\ rejected # thrown
  /\ Includes(rejected.message, "Network error during analysis. If the file is large, please ensure your internet connection is stable or try a smaller clip.")

\* C16: a step that changes the scene list is the Save of one card: the scene
\* of that card becomes the card's draft, every other scene is as before, the
\* list keeps its length and the order of its ids, and title and summary are
\* as before.
C16_EditTouchesOneScene ==
  [][/\ Len(scenes') = Len(scenes)
     /\ \A i \in 1..Len(scenes) : scenes'[i].id = scenes[i].id
     /\ title' = title
     /\ summary' = summary
     /\ \A i \in 1..Len(scenes) :
          scenes'[i] # scenes[i] =>
            /\ isEditing[scenes[i].id]
            /\ ~isEditing'[scenes[i].id]
            /\ scenes'[i] = editedData[scenes[i].id]
            /\ \A j \in 1..Len(scenes) : j # i => scenes'[j] = scenes[j]]_vars

\* In the list 2, 1 the visualDescription of scene 2 was edited and saved.
C16_Witness ==
  /\ Len(scenes) = 2
  /\ scenes[1] = [Scene(2) EXCEPT !.visualDescription = <<"typed", 1>>]
  /\ scenes[2] = Scene(1)
  /\ ~isEditing[2]
  /\ title = <<"title">>
  /\ summary = <<"summary">>

\* C17: when the analysis response has no text, the call throws the
\* empty-response error, rejects with it, returns nothing, and the App is in
\* state ERROR showing its message.
C17_EmptyResponse ==
  [][apc = "generateContent" /\ apc' # apc /\ responseText' \in {"undefined", ""} =>
       /\ apc' = "rejected"
       /\ thrown' = [type |-> "Error", message |-> <<"No response text received from Gemini.">>]
       /\ rejected' = thrown'
       /\ result' = <<>>
       /\ appState' = "ERROR"
       /\ errorMsg' = <<"No response text received from Gemini.">>
       /\ analysisResult' = analysisResult]_vars

\* The response of an upload-path analysis had no text.
C17_Witness ==
  /\ appState = "ERROR"
  /\ apc = "rejected"
  /\ parts = "fileData"
  /\ responseText = "undefined"
  /\ result = <<>>
  /\ errorMsg = <<"No response text received from Gemini.">>

Settles(how) == apc # how /\ apc' = how

\* A step in which onFileSelect is called with a file.
FileHandedOn ==
  \E f \in ShellFiles :
    \/ appState = "IDLE" /\ f.size >= 10 * 1024 * 1024 /\ handleFileSelect([file |-> f])
    \/ f \in reading /\ f \notin reading' /\ handleFileSelect([file |-> f])

\* C19: a file handed on by the uploader takes the App to ANALYZING with an
\* analysis pending, and ANALYZING is entered no other way; the App is in
\* SUCCESS with the result in the step the analysis resolves and in ERROR
\* with a message in the step it rejects; ANALYZING is left to SUCCESS or
\* ERROR only as an analysis settles, and to IDLE by resetApp; in ERROR the
\* message is never empty.
C19_ShellStates ==
  /\ [](appState \in {"IDLE", "ANALYZING", "SUCCESS", "ERROR"})
  /\ [](appState = "ERROR" => errorMsg # <<>>)
  /\ [][FileHandedOn => appState' = "ANALYZING" /\ errorMsg' = <<>> /\ Pending']_vars
  /\ [][appState # "ANALYZING" /\ appState' = "ANALYZING" => FileHandedOn]_vars
  /\ [][Settles("resolved") => appState' = "SUCCESS" /\ analysisResult' = result']_vars
  /\ [][Settles("rejected") => appState' = "ERROR" /\ errorMsg' # <<>>]_vars
  /\ [][appState = "ANALYZING" /\ appState' # "ANALYZING" =>
          \/ appState' = "SUCCESS" /\ (Settles("resolved") \/ abandoned' = abandoned - 1)
          \/ appState' = "ERROR" /\ (Settles("rejected") \/ abandoned' = abandoned - 1)
          \/ appState' = "IDLE" /\ currentVideo' = NoVideo]_vars

\* The read of a small file failed: the rejection has no message and the App
\* shows the default one.
C19_Witness ==
  /\ appState = "ERROR"
  /\ apc = "rejected"
  /\ rejected.type = "ProgressEvent"
  /\ currentVideo # NoVideo
  /\ errorMsg = <<"An unexpected error occurred during analysis.">>

\* The invocation of handleGenerateVideo has not settled.
InFlight(c) ==
  calls[c].pc \in {"hasSelectedApiKey", "openSelectKey", "generateVideos", "sleep",
                   "getVideosOperation", "download"}

\* The invocation is inside generateVeoVideo.
Generating(c) ==
  calls[c].pc \in {"generateVideos", "sleep", "getVideosOperation", "download"}

\* C20: while an invocation of handleGenerateVideo for a scene has not
\* settled, the key check included, no other invocation for that scene is
\* inside generateVeoVideo.
C20_OneGenerationPerScene ==
  \A c, d \in CallIds :
    c # d /\ calls[c].scene = calls[d].scene /\ InFlight(c) => ~Generating(d)

\* A merge is in flight: handleMergeVideos has passed its first await and
\* has not yet reached its finally block.
MergeInFlight == mpc # "idle"

\* C21: through the button at most one merge is in flight: the button is
\* disabled while a merge is in flight or while no clip exists, so every
\* entry of handleMergeVideos happens with no merge in flight, isMerging
\* false and at least one clip present.
C21_OneMergeInFlight ==
  /\ [](MergeInFlight => isMerging /\ ~MergeEnabled)
  /\ [](readySceneCount = 0 => ~MergeEnabled)
  /\ [][MergeClicked => ~MergeInFlight /\ ~isMerging /\ readySceneCount > 0]_vars

\* C21 witness: a merge of one clip is in flight and a second clip has
\* arrived meanwhile: clips exist, and the button is disabled by isMerging
\* alone.
C21_Witness ==
  /\ MergeInFlight
  /\ isMerging
  /\ Len(videoUrlsToMerge) = 1
  /\ readySceneCount >= 2
  /\ ~MergeEnabled

\* The invocation's download succeeds in this step.
Delivers(c) == calls[c].pc = "download" /\ calls'[c].pc = "done"

\* C22: the clip map holds one entry per scene id: a successful generation
\* for a scene puts its clip in that scene's entry, replacing what was
\* there, and leaves every other scene's entry as it was; nothing else
\* changes the map.
C22_OneClipPerScene ==
  /\ [][\A c \in CallIds :
          Delivers(c) =>
            /\ generatedVideos'[calls[c].scene] = calls'[c].url
            /\ calls'[c].url # NoClip
            /\ \A t \in SceneIds \ {calls[c].scene} :
                 generatedVideos'[t] = generatedVideos[t]]_vars
  /\ [][generatedVideos' # generatedVideos => \E c \in CallIds : Delivers(c)]_vars
  /\ [](\A s \in SceneIds : generatedVideos[s] # NoClip => SceneOf(generatedVideos[s]) = s)

\* C22 witness: scene 1 was generated twice: its entry holds the clip of the
\* second generation, not of the first.
C22_Witness ==
  /\ Len(calls) = 2
  /\ calls[1].scene = 1 /\ calls[1].pc = "done"
  /\ calls[2].scene = 1 /\ calls[2].pc = "done"
  /\ calls[1].url # calls[2].url
  /\ generatedVideos[1] = calls[2].url

\* The call is still obtaining its payload.
ObtainingPayload == apc \in {"fileToBase64", "Initiating", "Transferring", "Polling", "Waiting"}

\* C24: a call of analyzeVideoScript that resolves has issued exactly one
\* analysis request; the request goes out in the step in which the payload
\* is obtained (the base64 read finishes, or the uploaded file is reported
\* ACTIVE after initiation and transfer); a call that fails while still
\* obtaining its payload has issued none.
C24_OneAnalysisRequest ==
  /\ [](nAnalyze <= 1)
  /\ [](apc = "resolved" => nAnalyze = 1)
  /\ [](nAnalyze = 1 =>
          \/ parts = "inlineData" /\ UseInline(file) /\ nInitiate = 0
          \/ /\ parts = "fileData" /\ ~UseInline(file)
             /\ nInitiate = 1 /\ nTransfer = 1
             /\ fileUri # <<>> /\ lastState = "ACTIVE")
  /\ [][nAnalyze' > nAnalyze =>
          \/ apc = "fileToBase64"
          \/ apc = "Polling" /\ lastState' = "ACTIVE"]_vars
  /\ [][ObtainingPayload /\ apc' = "rejected" => nAnalyze' = 0]_vars

\* C24 witness: a call that uploaded its file and polled more than once has
\* resolved, with one analysis request sent.
C24_Witness ==
  /\ apc = "resolved"
  /\ parts = "fileData"
  /\ nPoll >= 2
  /\ nAnalyze = 1

\* The invocation has ended.
Ended(c) == calls[c].pc \in {"failed", "done", "aborted"}

\* What resetApp leaves behind.
Cleared ==
  /\ appState = "IDLE"
  /\ currentVideo = NoVideo
  /\ analysisResult = <<>>
  /\ errorMsg = <<>>

\* C23: nothing is retried.  In an analysis run the start request, the
\* transfer and the analysis request are issued at most once, and a remote
\* call that has failed has ended the run: the run is rejected and issues
\* nothing more.  In a generation run a failure ends the invocation, which
\* never moves again, and the download is issued at most once.  A step to
\* IDLE clears the current video, the result and the message and starts no
\* request; ERROR is left by such a step only, events of earlier selections
\* apart (a pending read handing on its file, another pending analysis
\* settling).
C23_NoRetry ==
  /\ [](nInitiate <= 1 /\ nTransfer <= 1 /\ nAnalyze <= 1)
  /\ [](thrown # NoError => apc = "rejected")
  /\ [][apc = "rejected" /\ ~FileHandedOn =>
          UNCHANGED << apc, nInitiate, nTransfer, nPoll, nAnalyze >>]_vars
  /\ [](\A c \in CallIds :
          /\ calls[c].nDownload <= 1
          /\ calls[c].err # <<>> => calls[c].pc = "failed")
  /\ [][\A c \in CallIds : Ended(c) => calls'[c] = calls[c]]_vars
  /\ [][\A c \in CallIds :
          calls[c].pc # "failed" /\ calls'[c].pc = "failed" =>
            /\ ~isGenerating'[calls[c].scene]
            /\ error'[calls[c].scene] # <<>>
            /\ generatedVideos' = generatedVideos]_vars
  /\ [][appState # "IDLE" /\ appState' = "IDLE" =>
          /\ Cleared'
          /\ UNCHANGED << apc, nInitiate, nTransfer, nPoll, nAnalyze >>]_vars
  /\ [][appState = "ERROR" /\ appState' # "ERROR" =>
          \/ Cleared'
          \/ FileHandedOn
          \/ abandoned' < abandoned
          \/ Settles("resolved")]_vars

\* C23 witness: a status fetch failed after the second poll, the run was
\* rejected without an analysis request, and resetApp has cleared the App.
C23_Witness ==
  /\ apc = "rejected"
  /\ thrown = FetchRejected
  /\ nPoll >= 2
  /\ nAnalyze = 0
  /\ Cleared

\* The card of scene s leaves edit mode in this step.
LeavesEditMode(s) == isEditing[s] /\ ~isEditing'[s]

\* C26: editing is a draft and a commit.  A step that changes a draft and
\* keeps every card's mode leaves the scenes as they are; the scenes change
\* only when a card leaves edit mode, and then that card's scene becomes
\* exactly its draft; a card leaves edit mode either so (Save) or with the
\* scenes unchanged and its draft reset to its scene (Cancel); Save and
\* Cancel both leave edit mode.
C26_DraftCommit ==
  /\ [][editedData' # editedData /\ isEditing' = isEditing => scenes' = scenes]_vars
  /\ [][scenes' # scenes =>
          \E s \in CardIds :
            /\ LeavesEditMode(s)
            /\ SceneWithId(scenes', s) = editedData[s]
            /\ \A t \in CardIds \ {s} : SceneWithId(scenes', t) = SceneWithId(scenes, t)]_vars
  /\ [][\A s \in CardIds :
          LeavesEditMode(s) =>
            \/ SceneWithId(scenes', s) = editedData[s] /\ editedData'[s] = editedData[s]
            \/ scenes' = scenes /\ editedData'[s] = SceneWithId(scenes, s)]_vars
  /\ [][\A s \in CardIds :
          handleSaveEdit(s) \/ handleCancelEdit(s) => ~isEditing'[s]]_vars
  /\ [](\A s \in CardIds : ~isEditing[s] => editedData[s] = SceneWithId(scenes, s))

\* C26 witness: after two typed changes every card is out of edit mode;
\* scene 1 holds saved text, scene 2 and its draft are as the analysis
\* returned them.
C26_Witness ==
  /\ nChange = 2
  /\ \A s \in CardIds : ~isEditing[s]
  /\ SceneWithId(scenes, 1) # Scene(1)
  /\ SceneWithId(scenes, 2) = Scene(2)
  /\ editedData[2] = Scene(2)

\* The working copy of the view.
localResult == [title |-> title, summary |-> summary, scenes |-> scenes]

\* Text the user typed is in the scene.
HasTyped(scene) == \E f \in EditableFields : scene[f] \in Typed

\* C25: when a new result arrives, by the effect or by mounting the view, the
\* working copy becomes the new result and nothing else: title, summary and
\* every scene are the new result's, no typed text is left in it, and every
\* card's draft is its new scene.
C25_ReplacedWholesale ==
  /\ [][\A r \in NewResults :
          resultChanged(r) \/ mountView(r) =>
            /\ localResult' = r
            /\ \A i \in 1..Len(scenes') : ~HasTyped(scenes'[i])
            /\ \A s \in SceneIdsOf(r) : editedData'[s] = SceneWithId(r.scenes, s)]_vars
  /\ [][title' # title \/ summary' # summary \/ Len(scenes') # Len(scenes) =>
          /\ localResult' \in NewResults
          /\ \A s \in DOMAIN editedData' : ~HasTyped(editedData'[s])]_vars

\* C25 witness: the working copy is a re-analysis result shown while a card
\* was in edit mode, after typed changes: no typed text is in it and the
\* card's draft is the new scene.
C25_Witness ==
  /\ localResult \in NewResults
  /\ Len(scenes) = NumCards
  /\ nChange = 2
  /\ isEditing[1]
  /\ editedData[1] = SceneAgain(1)

\* The invocation is started in this step.
Clicked(c) == c \in DOMAIN calls' /\ c \notin DOMAIN calls

\* The invocation calls generateVeoVideo in this step.
Requests(c) ==
  /\ c \in DOMAIN calls'
  /\ calls'[c].pc = "generateVideos"
  /\ c \in DOMAIN calls => calls[c].pc # "generateVideos"

\* The prompt committed for the scene.
CommittedPrompt(s) == SceneWithId(scenes, s).aiVideoPrompt

\* C27: the generation request carries the video prompt that was committed
\* for the scene when Generate was clicked, whatever has been typed into the
\* card's draft since; Generate cannot be clicked in edit mode, so at the
\* click the draft holds nothing unsaved; and the prompt of an invocation
\* never changes afterwards, so a clip comes from a committed prompt.
C27_CommittedPrompt ==
  /\ [][\A c \in DOMAIN calls' :
          Clicked(c) =>
            /\ ~isEditing[calls'[c].scene]
            /\ editedData[calls'[c].scene].aiVideoPrompt = CommittedPrompt(calls'[c].scene)
            /\ calls'[c].captured = CommittedPrompt(calls'[c].scene)]_vars
  /\ [][\A c \in DOMAIN calls' : Requests(c) => calls'[c].prompt = calls'[c].captured]_vars
  /\ [][\A c \in CallIds :
          /\ calls'[c].captured = calls[c].captured
          /\ calls[c].prompt # <<>> => calls'[c].prompt = calls[c].prompt]_vars
  /\ [](\A c \in CallIds :
          calls[c].url # NoClip => calls[c].prompt = calls[c].captured /\ calls[c].prompt # <<>>)

\* C27 witness: a clip was generated from a saved prompt while the card was
\* back in edit mode with other text typed into the draft.
C27_Witness ==
  /\ Len(calls) = 1
  /\ calls[1].pc = "done"
  /\ calls[1].prompt = <<"typed", 1>>
  /\ isEditing[calls[1].scene]
  /\ editedData[calls[1].scene].aiVideoPrompt = <<"typed", 2>>

\* C28: the drawing surface of a merge has the frame size of the first clip
\* to merge whenever a clip is drawn on it, and no later clip resizes it: its
\* size changes only to that of the first clip (or with the new surface of
\* a new merge).
C28_SurfaceSize ==
  /\ [](drawn # <<>> => canvas = videoUrlsToMerge[1])
  /\ [][canvas' # canvas => canvas' = NoClip \/ canvas' = videoUrlsToMerge'[1]]_vars

\* C29: a call of handleMergeVideos leaves the scene list of the working
\* copy as it was, the same scenes in the same order.
C29_MergeKeepsStoryboard == [][MergeClicked => scenes' = scenes]_vars

\* C30: in state SUCCESS the analysis result and the current video are both
\* present.
C30_SuccessHasVideo ==
  appState = "SUCCESS" => analysisResult # <<>> /\ currentVideo # NoVideo

\* C31: the result shown is the result of analysing the current video, and
\* the settling of an analysis that is no longer the newest changes neither
\* the state, nor the result, nor the error message.
C31_ResultOfCurrentVideo ==
  /\ [](appState = "SUCCESS" /\ currentVideo # NoVideo =>
          /\ apc = "resolved"
          /\ currentVideo = [file |-> file]
          /\ analysisResult = result)
  /\ [][abandoned' < abandoned => UNCHANGED << appState, analysisResult, errorMsg >>]_vars

\* The clips the cards show as generated.
ShownClips == {generatedVideoUrl[s] : s \in {t \in CardIds : generatedVideoUrl[t] # NoClip}}

\* The clips a merge invoked now would use.
ClipsToMerge ==
  LET urls == UrlsToMerge(SortById(scenes)) IN {urls[i] : i \in 1..Len(urls)}

\* C32: the clips a merge uses are the clips the cards show as generated.
C32_MergeUsesShownClips == ClipsToMerge = ShownClips

C34_MergeFinishes ==
  /\ MergeInFlight ~> ~MergeInFlight
  /\ [](~MergeInFlight => ~isMerging /\ mergeProgress = <<>>)
  /\ [](MergeInFlight => isMerging)
  /\ [][mpc = "clip" /\ cpc = "playing" /\ (cpc' # "playing" \/ mi' # mi \/ mpc' # "clip")
          => onended \/ onerror]_vars

\* C34 witness: a merge of two clips has finished with its output.
C34_Witness ==
  /\ ~MergeInFlight
  /\ ~isMerging
  /\ mergeProgress = <<>>
  /\ Len(finished) = 2
  /\ mergedVideoUrl # NoMerged

\* C35: the three size tests agree: in state ANALYZING the large-upload text
\* is shown exactly when analyzeVideoScript uploads the file, and the
\* uploader reads a file as base64 exactly when analyzeVideoScript sends it
\* inline.
C35_SizeTestsAgree ==
  /\ [](appState = "ANALYZING" /\ currentVideo # NoVideo =>
          (LargeUploadText(currentVideo) <=> ~UseInline(currentVideo.file)))
  /\ [](\A f \in reading : UseInline(f))
  /\ [][\A f \in ShellFiles :
          appState = "IDLE" /\ f \notin reading /\ handleFileChange(f)
            /\ f.size <= MAX_SIZE_BYTES =>
            (f \in reading' <=> UseInline(f))]_vars

\* C36: a file above the maximum size is never handed on, so it is never the
\* current video; and every file accepted is handed on: the read of a file
\* that is read first ends with the file handed on.
C36_OneCallPerFile ==
  /\ [][\A f \in ShellFiles : f.size > MAX_SIZE_BYTES => ~handleFileSelect([file |-> f])]_vars
  /\ [](currentVideo # NoVideo => currentVideo.file.size <= MAX_SIZE_BYTES)
  /\ [](\A f \in reading : f.size <= MAX_SIZE_BYTES)
  /\ [][\A f \in ShellFiles :
          f \in reading /\ f \notin reading' => handleFileSelect([file |-> f])]_vars

====
